---------------------------- MODULE Spec2Model ----------------------------
(***************************************************************************)
(* The streaming transport of the Data Streams SDK (rust): the Stream      *)
(* object, its per-connection reader tasks (run_stream), the reconnection  *)
(* loop (handle_reconnection, try_to_reconnect), the deduplication         *)
(* watermark, the statistics counters, the consumer channel and the        *)
(* shutdown broadcast.                                                     *)
(*                                                                         *)
(* One reader task runs per connection.  A reader step is one stretch of   *)
(* run_stream between two suspension points (.await) or two accesses of    *)
(* shared state, so the interleavings of the model are the interleavings   *)
(* the tokio scheduler can produce.                                        *)
(***************************************************************************)
EXTENDS Integers, Sequences, FiniteSets, TLC

(***************************************************************************)
(* Bounds of the model.                                                    *)
(***************************************************************************)
\* number of origins in config.ws_url that connected in Stream::new (HA mode)
NumConns == 2
\* number of distinct feed IDs the servers report on
NumFeeds == 1
\* largest observationsTimestamp a server sends
MaxTs == 2
\* total number of report frames the servers send over all connections
MaxFrames == 2
\* total number of disconnects the servers cause over all connections
MaxDrops == 2
\* capacity of the consumer channel in the model (mpsc::channel(100) in the code)
ChanCap == 1
\* largest configured ws_max_reconnect in the full model
MaxReconnectCfg == 2
\* largest configured ws_max_reconnect in the reconnection model
MaxReconnectEpisodeCfg == 7
\* number of times the consumer calls close
MaxCloseCalls == 2
\* largest number of origins in config.ws_url
MaxOrigins == 5
\* largest number of magnitude bytes of a BigInt handed to the word codec
MaxMagBytes == 25
\* largest number of bytes a full-report payload has after its first 128
MaxTail == 36
\* largest in-range value of the length field of a full-report payload
MaxBlobLen == 3
\* largest number of whole words in a byte string handed to a schema's decode
MaxWords == 15
\* number of sample reports of each schema handed to abi_encode
MaxSeeds == 2

(***************************************************************************)
(* Program constants.                                                      *)
(***************************************************************************)
MIN_WS_RECONNECT_INTERVAL == 1000
MAX_WS_RECONNECT_INTERVAL == 10000
DEFAULT_WS_MAX_RECONNECT == 5

Conns == 1..NumConns
Feeds == 1..NumFeeds
Timestamps == 1..MaxTs

\* a parsed WebSocketReport: only the two fields run_stream reads
Reports == [feed : Feeds, ts : Timestamps]
NoReport == [feed |-> 0, ts |-> 0]
\* water_mark.contains_key(feed) is FALSE where the map holds NoKey
NoKey == -1

VARIABLES
    pc,                     \* position of each reader task in run_stream
    cur,                    \* the report a reader parsed last (local `report`)
    nrep,                   \* report frames each connection has delivered so far
    drops,                  \* disconnects each connection has suffered so far
    sock,                   \* state of each reader's socket
    reconnect_attempts,     \* try_to_reconnect's local counter
    backoff,                \* try_to_reconnect's local backoff, in ms
    shutdown_flag,          \* run_stream's local shutdown_flag
    pending,                \* shutdown_receiver holds an unread broadcast
    logged,                 \* frames the readers have logged and done nothing else with
    reader_origin,          \* the origin each reader's socket was opened to, or is
                            \* being reopened to (its index in ws_url, from 1)
    water_mark,             \* feed -> largest timestamp inserted, or NoKey
    sent,                   \* every report placed on the consumer channel, in order
    nread,                  \* how many of them read() has returned
    accepted, deduplicated, partial_reconnects, full_reconnects,
    configured_connections, active_connections,
    ws_max_reconnect,       \* config.ws_max_reconnect
    cpc,                    \* what the consumer (owner of the Stream) is doing
    closeCalls,             \* completed calls of close, all returned Ok
    conn,                   \* Stream.conn: "some" until listen takes it
    ws_ha,                  \* config.ws_ha is Enabled
    numOrigins,             \* number of entries parse_origins finds in ws_url
    tried,                  \* connect_to_origin calls made by connect, in order
    streams,                \* connect's local `streams`: the origins that connected
    newResult,              \* what Stream::new returned, "running" before it does
    arg,                    \* the input of the function under test
    op,                     \* the function applied last, "none" before any
    ret                     \* what it returned

readerVars == <<pc, cur, nrep, drops, sock, reconnect_attempts, backoff,
                shutdown_flag, pending, reader_origin, logged>>
statsVars == <<accepted, deduplicated, partial_reconnects, full_reconnects,
               configured_connections, active_connections>>
consumerVars == <<cpc, closeCalls, conn>>
connectVars == <<ws_ha, numOrigins, tried, streams, newResult>>
\* the state of the calls made outside the streaming loop
pureVars == <<arg, op, ret>>
callVars == <<connectVars, pureVars>>
streamVars == <<readerVars, water_mark, sent, nread, statsVars, ws_max_reconnect,
                consumerVars>>
vars == <<readerVars, water_mark, sent, nread, statsVars, ws_max_reconnect,
          consumerVars, callVars>>

Min(a, b) == IF a <= b THEN a ELSE b

\* reader positions after which run_stream has returned
ExitPcs == {"exit_shutdown", "exit_close_err", "exit_reconnect_err", "exit_pong_err"}
Exited(r) == pc[r] \in ExitPcs
Spawned(r) == pc[r] # "unspawned"

\* the consumer channel holds the reports sent and not yet read
ChanLen == Len(sent) - nread
\* a channel without a capacity: send never waits
ChanNeverFull == FALSE

ChanFull == ChanLen >= ChanCap

\* Senders of the consumer channel that are alive: Stream.report_sender, which
\* lives as long as the Stream, and the clone each running reader task owns.
SendersAlive == 1 + Cardinality({r \in Conns : Spawned(r) /\ ~Exited(r)})

FramesSent == LET S[n \in 0..NumConns] == IF n = 0 THEN 0 ELSE S[n - 1] + nrep[n]
              IN S[NumConns]
DropsDone == LET S[n \in 0..NumConns] == IF n = 0 THEN 0 ELSE S[n - 1] + drops[n]
             IN S[NumConns]

\* Stream::new has returned Ok: connect ran in HA mode and every origin
\* connected
ConnectDone ==
    /\ ws_ha = TRUE
    /\ numOrigins = NumConns
    /\ tried = [i \in 1..NumConns |-> [origin |-> i, ok |-> TRUE]]
    /\ streams = [i \in 1..NumConns |-> i]
    /\ newResult = "Ok"

\* no function is under test
NoCall ==
    /\ arg = <<>>
    /\ op = "none"
    /\ ret = <<>>

\* no call outside the streaming loop is in progress
CallsDone == ConnectDone /\ NoCall

(***************************************************************************)
(* The state after Stream::new: connect opened one socket per origin and   *)
(* counted each in configured_connections and active_connections; the      *)
(* other counters are 0, the watermark map is empty, no task runs yet.     *)
(***************************************************************************)
InitStream ==
    /\ pc = [r \in Conns |-> "unspawned"]
    /\ cur = [r \in Conns |-> NoReport]
    /\ nrep = [r \in Conns |-> 0]
    /\ drops = [r \in Conns |-> 0]
    /\ sock = [r \in Conns |-> "open"]
    /\ reconnect_attempts = [r \in Conns |-> 0]
    /\ backoff = [r \in Conns |-> 0]
    /\ shutdown_flag = [r \in Conns |-> FALSE]
    /\ pending = [r \in Conns |-> FALSE]
    /\ water_mark = [f \in Feeds |-> NoKey]
    /\ sent = <<>>
    /\ nread = 0
    /\ accepted = 0
    /\ deduplicated = 0
    /\ partial_reconnects = 0
    /\ full_reconnects = 0
    /\ configured_connections = NumConns
    /\ active_connections = NumConns
    /\ cpc = "idle"
    /\ closeCalls = 0
    /\ conn = "some"
    /\ CallsDone
    /\ reader_origin = [r \in Conns |-> streams[r]]
    /\ logged = 0

Init == InitStream /\ ws_max_reconnect \in 1..MaxReconnectCfg

(***************************************************************************)
(* Stream::listen: takes conn, subscribes one shutdown receiver per socket *)
(* and spawns one run_stream task per socket; a spawned task runs from its *)
(* first poll.  A second call finds conn empty and returns ConnectionError.*)
(***************************************************************************)
\* a listen that looks at self.conn and leaves it in place
peek(c) == c

\* Option::take: what self.conn holds after listen took the connections
take(c) == "none"

Listen ==
    /\ cpc \in {"idle", "stream_closed"}
    /\ conn = "some"
    /\ conn' = take(conn)
    /\ pc' = [r \in Conns |-> "spawned"]
    /\ UNCHANGED <<cur, nrep, drops, sock, reconnect_attempts, backoff,
                   shutdown_flag, pending, water_mark, sent, nread, statsVars,
                   ws_max_reconnect, cpc, closeCalls,
                   callVars, reader_origin, logged>>

\* the first poll of a spawned task: run_stream creates its shutdown_flag and
\* enters the loop
StartTask(r) ==
    /\ pc[r] = "spawned"
    /\ shutdown_flag' = [shutdown_flag EXCEPT ![r] = FALSE]
    /\ pc' = [pc EXCEPT ![r] = "select"]
    /\ UNCHANGED <<cur, nrep, drops, sock, reconnect_attempts, backoff,
                   pending, water_mark, sent, nread, statsVars,
                   ws_max_reconnect, consumerVars,
                   callVars, reader_origin, logged>>

(***************************************************************************)
(* run_stream, the message branch of select!: stream.next() yields a frame *)
(***************************************************************************)
\* the socket can still yield data frames
CanRecv(r) == pc[r] = "select" /\ sock[r] = "open"

\* the data frames the servers have sent: reports and frames that are only
\* logged
DataFrames == FramesSent + logged

\* what a frame that is only logged leaves alone
notLogged == <<pc, cur, nrep, drops, sock, reconnect_attempts, backoff,
               shutdown_flag, pending, reader_origin, water_mark, sent, nread,
               statsVars, ws_max_reconnect, consumerVars, callVars>>

\* Message::Text, Message::Pong, any other frame: logged only
RecvIgnored(r) ==
    /\ CanRecv(r)
    /\ DataFrames < MaxFrames
    /\ logged' = logged + 1
    /\ UNCHANGED notLogged

\* serde_json::from_slice::<WebSocketReport>(&data) is Ok: the mutation that
\* takes every Binary frame for a report
AlwaysParses(parsed) == TRUE

\* serde_json::from_slice::<WebSocketReport>(&data) is Ok
IsOk(parsed) == parsed # NoReport

\* Message::Binary: a frame that parses goes to the deduplication check with
\* its feed_id and observations_timestamp; one that does not (parsed is
\* NoReport) is logged only
RecvBinaryFrame(r, parsed) ==
    /\ CanRecv(r)
    /\ DataFrames < MaxFrames
    /\ IF IsOk(parsed)
       THEN /\ cur' = [cur EXCEPT ![r] = parsed]
            /\ nrep' = [nrep EXCEPT ![r] = @ + 1]
            /\ pc' = [pc EXCEPT ![r] = "lock_contains"]
            /\ logged' = logged
       ELSE /\ logged' = logged + 1
            /\ UNCHANGED <<cur, nrep, pc>>
    /\ UNCHANGED <<drops, sock, reconnect_attempts, backoff, shutdown_flag,
                   pending, water_mark, sent, nread, statsVars,
                   ws_max_reconnect, consumerVars,
                   callVars, reader_origin>>

\* Message::Binary that does not parse as WebSocketReport: logged only
RecvMalformed(r) == RecvBinaryFrame(r, NoReport)

\* Message::Binary that parses: feed_id and observations_timestamp are taken
RecvBinary(r, rep) == RecvBinaryFrame(r, rep)

\* water_mark.lock().await.contains_key(&feed_id): the left operand of &&
LockContains(r) ==
    /\ pc[r] = "lock_contains"
    /\ pc' = [pc EXCEPT ![r] = IF water_mark[cur[r].feed] # NoKey
                               THEN "lock_compare" ELSE "send"]
    /\ UNCHANGED <<cur, nrep, drops, sock, reconnect_attempts, backoff,
                   shutdown_flag, pending, water_mark, sent, nread, statsVars,
                   ws_max_reconnect, consumerVars,
                   callVars, reader_origin, logged>>

\* the report is a duplicate: the watermark has reached its timestamp
IsDuplicate(mark, ts) == mark >= ts

\* water_mark.lock().await[&feed_id] >= observations_timestamp: the right
\* operand, under a second acquisition of the lock; on TRUE the report is
\* counted in deduplicated and dropped
LockCompare(r) ==
    /\ pc[r] = "lock_compare"
    /\ IF IsDuplicate(water_mark[cur[r].feed], cur[r].ts)
       THEN /\ deduplicated' = deduplicated + 1
            /\ pc' = [pc EXCEPT ![r] = "select"]
       ELSE /\ deduplicated' = deduplicated
            /\ pc' = [pc EXCEPT ![r] = "send"]
    /\ UNCHANGED <<cur, nrep, drops, sock, reconnect_attempts, backoff,
                   shutdown_flag, pending, water_mark, sent, nread, accepted,
                   partial_reconnects, full_reconnects, configured_connections,
                   active_connections, ws_max_reconnect, consumerVars,
                   callVars, reader_origin, logged>>

\* report_sender.send(report).await: suspends while the channel is full.  The
\* receiver lives in the Stream, so the send does not fail.
SendReport(r) ==
    /\ pc[r] = "send"
    /\ ~ChanFull
    /\ sent' = Append(sent, cur[r])
    /\ pc' = [pc EXCEPT ![r] = "insert"]
    /\ UNCHANGED <<cur, nrep, drops, sock, reconnect_attempts, backoff,
                   shutdown_flag, pending, water_mark, nread, statsVars,
                   ws_max_reconnect, consumerVars,
                   callVars, reader_origin, logged>>

\* water_mark.lock().await.insert(feed_id, observations_timestamp)
InsertWaterMark(r) ==
    /\ pc[r] = "insert"
    /\ water_mark' = [water_mark EXCEPT ![cur[r].feed] = cur[r].ts]
    /\ pc' = [pc EXCEPT ![r] = "count_accepted"]
    /\ UNCHANGED <<cur, nrep, drops, sock, reconnect_attempts, backoff,
                   shutdown_flag, pending, sent, nread, statsVars,
                   ws_max_reconnect, consumerVars,
                   callVars, reader_origin, logged>>

\* stats.accepted.fetch_add(1)
CountAccepted(r) ==
    /\ pc[r] = "count_accepted"
    /\ accepted' = accepted + 1
    /\ pc' = [pc EXCEPT ![r] = "select"]
    /\ UNCHANGED <<cur, nrep, drops, sock, reconnect_attempts, backoff,
                   shutdown_flag, pending, water_mark, sent, nread,
                   deduplicated, partial_reconnects, full_reconnects,
                   configured_connections, active_connections,
                   ws_max_reconnect, consumerVars,
                   callVars, reader_origin, logged>>

\* Message::Ping: stream.send(Pong).await; a failed send ends the task with
\* ConnectionError
RecvPing(r, ok) ==
    /\ CanRecv(r)
    /\ pc' = [pc EXCEPT ![r] = IF ok THEN "select" ELSE "exit_pong_err"]
    /\ UNCHANGED <<cur, nrep, drops, sock, reconnect_attempts, backoff,
                   shutdown_flag, pending, water_mark, sent, nread, statsVars,
                   ws_max_reconnect, consumerVars,
                   callVars, reader_origin, logged>>

(***************************************************************************)
(* run_stream: the connection is lost                                      *)
(***************************************************************************)
\* The server may disconnect a healthy socket while the model's budget of
\* disconnects lasts; a socket whose Close frame was read only ends.
CanDrop(r) ==
    /\ pc[r] = "select"
    /\ \/ sock[r] = "peer_closed"
       \/ sock[r] = "open" /\ DropsDone < MaxDrops

DropCounted(r) == [drops EXCEPT ![r] = IF sock[r] = "open" THEN @ + 1 ELSE @]

\* AtomicU64::fetch_sub(1) and fetch_add(1) wrap modulo 2^64.  The variable
\* holds the representative of the counter's value in -2^63 .. 2^63 - 1: the
\* model adds and subtracts far fewer than 2^63 times, so the counter is 0
\* exactly when the representative is, and a negative representative v stands
\* for the wrapped value 2^64 + v.
FetchSub(v) == v - 1
FetchAdd(v) == v + 1

\* Message::Close: the frame is logged, active_connections is decremented
\* and the loop goes on reading the same socket
RecvClose(r) ==
    /\ CanRecv(r)
    /\ DropsDone < MaxDrops
    /\ active_connections' = FetchSub(active_connections)
    /\ sock' = [sock EXCEPT ![r] = "peer_closed"]
    /\ drops' = DropCounted(r)
    /\ UNCHANGED <<pc, cur, nrep, reconnect_attempts, backoff, shutdown_flag,
                   pending, water_mark, sent, nread, accepted, deduplicated,
                   partial_reconnects, full_reconnects, configured_connections,
                   ws_max_reconnect, consumerVars,
                   callVars, reader_origin, logged>>

\* Some(Err(e)): active_connections is decremented, then handle_reconnection
RecvErr(r) ==
    /\ CanDrop(r)
    /\ active_connections' = FetchSub(active_connections)
    /\ sock' = [sock EXCEPT ![r] = "lost"]
    /\ drops' = DropCounted(r)
    /\ pc' = [pc EXCEPT ![r] = "handle_reconnection"]
    /\ UNCHANGED <<cur, nrep, reconnect_attempts, backoff, shutdown_flag,
                   pending, water_mark, sent, nread, accepted, deduplicated,
                   partial_reconnects, full_reconnects, configured_connections,
                   ws_max_reconnect, consumerVars,
                   callVars, reader_origin, logged>>

\* None (end of stream): active_connections is decremented; the task returns
\* Ok if its shutdown_flag is set and reconnects otherwise
RecvNone(r) ==
    /\ CanDrop(r)
    /\ active_connections' = FetchSub(active_connections)
    /\ sock' = [sock EXCEPT ![r] = "lost"]
    /\ drops' = DropCounted(r)
    /\ pc' = [pc EXCEPT ![r] = IF shutdown_flag[r] THEN "exit_shutdown"
                               ELSE "handle_reconnection"]
    /\ UNCHANGED <<cur, nrep, reconnect_attempts, backoff, shutdown_flag,
                   pending, water_mark, sent, nread, accepted, deduplicated,
                   partial_reconnects, full_reconnects, configured_connections,
                   ws_max_reconnect, consumerVars,
                   callVars, reader_origin, logged>>

\* config.ws_url.split(',').next().unwrap(): the origin try_to_reconnect
\* connects to is the first of ws_url, whichever reader r calls it
ReconnectOrigin(r) == 1

\* handle_reconnection: a full reconnect is counted if no connection is active,
\* a partial one otherwise; then try_to_reconnect starts and takes its origin
HandleReconnection(r) ==
    /\ pc[r] = "handle_reconnection"
    /\ IF active_connections = 0
       THEN /\ full_reconnects' = full_reconnects + 1
            /\ partial_reconnects' = partial_reconnects
       ELSE /\ partial_reconnects' = partial_reconnects + 1
            /\ full_reconnects' = full_reconnects
    /\ reconnect_attempts' = [reconnect_attempts EXCEPT ![r] = 0]
    /\ backoff' = [backoff EXCEPT ![r] = MIN_WS_RECONNECT_INTERVAL]
    /\ reader_origin' = [reader_origin EXCEPT ![r] = ReconnectOrigin(r)]
    /\ pc' = [pc EXCEPT ![r] = "connect"]
    /\ UNCHANGED <<cur, nrep, drops, sock, shutdown_flag, pending, water_mark,
                   sent, nread, accepted, deduplicated, configured_connections,
                   active_connections, ws_max_reconnect, consumerVars,
                   callVars, logged>>

\* try_to_reconnect gives up: reconnect_attempts >= max_reconnect_attempts
AttemptsExhausted(attempts, max) == attempts >= max

\* the doubling without its cap
NextBackoffUncapped(b) == b * 2

\* backoff = (backoff * 2).min(MAX_WS_RECONNECT_INTERVAL)
NextBackoff(b) == Min(b * 2, MAX_WS_RECONNECT_INTERVAL)

\* try_to_reconnect, one turn of the loop up to the sleep: the attempt is
\* counted, connect_to_origin succeeds (ok) or fails
ConnectAttempt(r, ok) ==
    /\ pc[r] = "connect"
    /\ IF ok
       THEN /\ active_connections' = FetchAdd(active_connections)
            /\ sock' = [sock EXCEPT ![r] = "open"]
            /\ reconnect_attempts' = [reconnect_attempts EXCEPT ![r] = 0]
            /\ backoff' = [backoff EXCEPT ![r] = 0]
            /\ pc' = [pc EXCEPT ![r] = "select"]
       ELSE /\ active_connections' = active_connections
            /\ sock' = sock
            /\ reconnect_attempts' = [reconnect_attempts EXCEPT ![r] = @ + 1]
            /\ backoff' = backoff
            /\ pc' = [pc EXCEPT ![r] =
                        IF AttemptsExhausted(reconnect_attempts[r] + 1, ws_max_reconnect)
                        THEN "exit_reconnect_err" ELSE "sleep"]
    /\ UNCHANGED <<cur, nrep, drops, shutdown_flag, pending, water_mark, sent,
                   nread, accepted, deduplicated, partial_reconnects,
                   full_reconnects, configured_connections, ws_max_reconnect,
                   consumerVars,
                   callVars, reader_origin, logged>>

\* sleep(backoff).await is over; the backoff doubles up to the cap
BackoffSleep(r) ==
    /\ pc[r] = "sleep"
    /\ backoff' = [backoff EXCEPT ![r] = NextBackoff(@)]
    /\ pc' = [pc EXCEPT ![r] = "connect"]
    /\ UNCHANGED <<cur, nrep, drops, sock, reconnect_attempts, shutdown_flag,
                   pending, water_mark, sent, nread, statsVars,
                   ws_max_reconnect, consumerVars,
                   callVars, reader_origin, logged>>

(***************************************************************************)
(* run_stream, the shutdown branch of select!                              *)
(***************************************************************************)
\* shutdown_receiver.recv() completes: the flag is stored, stream.close starts
ShutdownRecv(r) ==
    /\ pc[r] = "select"
    /\ pending[r]
    /\ pending' = [pending EXCEPT ![r] = FALSE]
    /\ shutdown_flag' = [shutdown_flag EXCEPT ![r] = TRUE]
    /\ pc' = [pc EXCEPT ![r] = "closing"]
    /\ UNCHANGED <<cur, nrep, drops, sock, reconnect_attempts, backoff,
                   water_mark, sent, nread, statsVars, ws_max_reconnect,
                   consumerVars,
                   callVars, reader_origin, logged>>

\* stream.close(None).await returns: on Ok active_connections is decremented
\* and the task returns Ok, on Err it returns WebSocketError at once
CloseSocket(r, ok) ==
    /\ pc[r] = "closing"
    /\ IF ok
       THEN /\ active_connections' = FetchSub(active_connections)
            /\ pc' = [pc EXCEPT ![r] = "exit_shutdown"]
       ELSE /\ active_connections' = active_connections
            /\ pc' = [pc EXCEPT ![r] = "exit_close_err"]
    /\ UNCHANGED <<cur, nrep, drops, sock, reconnect_attempts, backoff,
                   shutdown_flag, pending, water_mark, sent, nread, accepted,
                   deduplicated, partial_reconnects, full_reconnects,
                   configured_connections, ws_max_reconnect, consumerVars,
                   callVars, reader_origin, logged>>

(***************************************************************************)
(* The consumer: the task that owns the Stream and calls read and close    *)
(***************************************************************************)
\* the consumer is between two calls; "stream_closed" when the last call was
\* a read that returned StreamClosed, "listen_error" when it was a listen that
\* returned ConnectionError
BetweenCalls == cpc \in {"idle", "stream_closed", "listen_error"}

\* listen on a Stream whose conn was taken: self.conn.take() is None, the call
\* returns ConnectionError("No connection") before it spawns anything
ListenNoConnection ==
    /\ BetweenCalls
    /\ conn = "none"
    /\ cpc' = "listen_error"
    /\ UNCHANGED <<readerVars, water_mark, sent, nread, statsVars,
                   ws_max_reconnect, closeCalls, conn,
                   callVars>>

\* report_receiver.recv() can complete: a report is queued, or the channel is
\* closed (every sender dropped) and empty
RecvReady == ChanLen > 0 \/ SendersAlive = 0

\* read is called: recv() completes at once when it can, with the oldest
\* report or with None, which read maps to StreamClosed; otherwise the call
\* stays pending
ReadCall ==
    /\ BetweenCalls
    /\ IF ChanLen > 0
       THEN /\ nread' = nread + 1
            /\ cpc' = "idle"
       ELSE /\ nread' = nread
            /\ cpc' = IF RecvReady THEN "stream_closed" ELSE "reading"
    /\ UNCHANGED <<readerVars, water_mark, sent, statsVars, ws_max_reconnect,
                   closeCalls, conn,
                   callVars>>

\* a pending recv() is woken and completes, as above
ReadReturn ==
    /\ cpc = "reading"
    /\ RecvReady
    /\ IF ChanLen > 0
       THEN /\ nread' = nread + 1
            /\ cpc' = "idle"
       ELSE /\ nread' = nread
            /\ cpc' = "stream_closed"
    /\ UNCHANGED <<readerVars, water_mark, sent, statsVars, ws_max_reconnect,
                   closeCalls, conn,
                   callVars>>

\* the caller drops the pending read (a select! or a timeout around it)
ReadCancel ==
    /\ cpc = "reading"
    /\ cpc' = "idle"
    /\ UNCHANGED <<readerVars, water_mark, sent, nread, statsVars,
                   ws_max_reconnect, closeCalls, conn,
                   callVars>>

\* a task that subscribes when it first runs, not when listen spawns it
SubscribedAtFirstPoll(r) == pc[r] \notin {"unspawned", "spawned"} /\ ~Exited(r)

\* the shutdown receivers alive at a send: listen subscribes one per task
\* before it spawns the task, and a task drops its receiver when it returns
Subscribed(r) == Spawned(r) /\ ~Exited(r)

\* close, up to its sleep: shutdown_sender.send(()) leaves the signal in the
\* receiver of every reader task that has not returned; with no receiver the
\* send fails and the error is logged
CloseCall ==
    /\ BetweenCalls
    /\ closeCalls < MaxCloseCalls
    /\ pending' = [r \in Conns |-> IF Subscribed(r) THEN TRUE ELSE pending[r]]
    /\ cpc' = "close_sleep"
    /\ UNCHANGED <<pc, cur, nrep, drops, sock, reconnect_attempts, backoff,
                   shutdown_flag, water_mark, sent, nread, statsVars,
                   ws_max_reconnect, closeCalls, conn,
                   callVars, reader_origin, logged>>

\* A reader step that waits for nothing but the scheduler: it is taken well
\* within the 100 ms that close sleeps.
Prompt(r) ==
    \/ pc[r] \in {"spawned", "lock_contains", "lock_compare", "insert",
                  "count_accepted", "handle_reconnection", "closing"}
    \/ pc[r] = "send" /\ ~ChanFull
    \/ pc[r] = "select" /\ pending[r]

\* close, from the end of sleep(100 ms): returns Ok
CloseReturn ==
    /\ cpc = "close_sleep"
    /\ \A r \in Conns : ~Prompt(r)
    /\ closeCalls' = closeCalls + 1
    /\ cpc' = "idle"
    /\ UNCHANGED <<readerVars, water_mark, sent, nread, statsVars,
                   ws_max_reconnect, conn,
                   callVars>>

(***************************************************************************)
(* Stream::new and connect: the sockets are opened before the Stream exists *)
(***************************************************************************)
\* what connect leaves alone
notConnectVars == <<readerVars, water_mark, sent, nread, accepted, deduplicated,
                    partial_reconnects, full_reconnects, ws_max_reconnect, cpc,
                    closeCalls, pureVars>>

\* Stream::new has created the channels and the statistics, all 0, and calls
\* connect; parse_origins has split ws_url
NewCalled ==
    /\ pc = [r \in Conns |-> "unspawned"]
    /\ cur = [r \in Conns |-> NoReport]
    /\ nrep = [r \in Conns |-> 0]
    /\ drops = [r \in Conns |-> 0]
    /\ sock = [r \in Conns |-> "lost"]
    /\ reconnect_attempts = [r \in Conns |-> 0]
    /\ backoff = [r \in Conns |-> 0]
    /\ shutdown_flag = [r \in Conns |-> FALSE]
    /\ pending = [r \in Conns |-> FALSE]
    /\ reader_origin = [r \in Conns |-> 0]
    /\ logged = 0
    /\ water_mark = [f \in Feeds |-> NoKey]
    /\ sent = <<>>
    /\ nread = 0
    /\ accepted = 0
    /\ deduplicated = 0
    /\ partial_reconnects = 0
    /\ full_reconnects = 0
    /\ configured_connections = 0
    /\ active_connections = 0
    /\ cpc = "idle"
    /\ closeCalls = 0
    /\ conn = "none"
    /\ tried = <<>>
    /\ streams = <<>>
    /\ newResult = "running"

\* config.ws_ha == Enabled && origins.len() > 1
MultipleBranch == ws_ha /\ numOrigins > 1

\* the check left out: connect returns Multiple(streams) whatever it holds
AnyStreamsAccepted(s) == FALSE

\* streams.is_empty() after the loop: connect returns ConnectionError
NoOriginConnected(s) == s = <<>>

\* one turn of `for origin in origins`: connect_to_origin succeeds (ok) or
\* fails; a success is pushed and counted, a failure is logged
ConnectToOrigin(ok) ==
    /\ newResult = "running"
    /\ MultipleBranch
    /\ Len(tried) < numOrigins
    /\ LET origin == Len(tried) + 1 IN
        /\ tried' = Append(tried, [origin |-> origin, ok |-> ok])
        /\ IF ok
           THEN /\ streams' = Append(streams, origin)
                /\ configured_connections' = FetchAdd(configured_connections)
                /\ active_connections' = FetchAdd(active_connections)
           ELSE /\ UNCHANGED <<streams, configured_connections, active_connections>>
    /\ UNCHANGED <<notConnectVars, conn, ws_ha, numOrigins, newResult>>

\* after the loop: ConnectionError if no origin connected, which Stream::new
\* passes on with `?`; otherwise Multiple(streams) and Stream::new returns the
\* Stream with conn = Some
ConnectMultipleReturn ==
    /\ newResult = "running"
    /\ MultipleBranch
    /\ Len(tried) = numOrigins
    /\ IF NoOriginConnected(streams)
       THEN /\ newResult' = "ConnectionError"
            /\ conn' = conn
       ELSE /\ newResult' = "Ok"
            /\ conn' = "some"
    /\ UNCHANGED <<notConnectVars, configured_connections, active_connections,
                   ws_ha, numOrigins, tried, streams>>

\* the else branch: only origins.first() is tried; its failure is the result
ConnectSingle(ok) ==
    /\ newResult = "running"
    /\ ~MultipleBranch
    /\ tried' = Append(tried, [origin |-> 1, ok |-> ok])
    /\ IF ok
       THEN /\ streams' = Append(streams, 1)
            /\ configured_connections' = FetchAdd(configured_connections)
            /\ active_connections' = FetchAdd(active_connections)
            /\ newResult' = "Ok"
            /\ conn' = "some"
       ELSE /\ UNCHANGED <<streams, configured_connections, active_connections,
                           conn>>
            /\ newResult' = "ConnectionError"
    /\ UNCHANGED <<notConnectVars, ws_ha, numOrigins>>

(***************************************************************************)
(* The word codec of the report crate (ReportBase)                         *)
(*                                                                         *)
(* A BigInt is its sign and the big-endian bytes of its magnitude without  *)
(* leading zeros (zero: no bytes, sign plus), so that 192-bit values keep   *)
(* their width.  A Result is [ok |-> TRUE, val |-> v] or                   *)
(* [ok |-> FALSE, err |-> e].                                              *)
(***************************************************************************)
WORD_SIZE == 32
Byte == 0..255

Ok(v) == [ok |-> TRUE, val |-> v]
Err(e) == [ok |-> FALSE, err |-> e]

\* what the functions under test leave alone
notPureVars == <<streamVars, connectVars>>

\* no Stream is being built: the functions of the report crate, the feed ID
\* and the configuration run without one
NoStream ==
    /\ NewCalled
    /\ ws_ha = FALSE
    /\ numOrigins = 1
    /\ ws_max_reconnect = DEFAULT_WS_MAX_RECONNECT

Zeros(n) == [i \in 1..n |-> 0]

RECURSIVE StripLeadingZeros(_)
StripLeadingZeros(bs) ==
    IF bs # <<>> /\ bs[1] = 0 THEN StripLeadingZeros(Tail(bs)) ELSE bs

\* BigInt::from_biguint(sign, BigUint::from_bytes_be(bs)): a zero magnitude
\* has no sign
FromMagnitude(neg, bs) ==
    LET mag == StripLeadingZeros(bs)
    IN [neg |-> neg /\ mag # <<>>, mag |-> mag]

\* BigUint::to_bytes_be: the magnitude, one zero byte for 0
to_bytes_be(v) == IF v.mag = <<>> THEN <<0>> ELSE v.mag

\* twos_complement_be: negation in place, the length is kept
twos_complement_be(bs) ==
    LET n == Len(bs)
        inv == [i \in 1..n |-> 255 - bs[i]]
        carry[i \in 0..n] ==
            IF i = n THEN 1
            ELSE IF inv[i + 1] + carry[i + 1] = 256 THEN 1 ELSE 0
    IN [i \in 1..n |-> (inv[i] + carry[i]) % 256]

\* BigInt::to_signed_bytes_be: the shortest two's-complement representation
to_signed_bytes_be(v) ==
    LET bytes == to_bytes_be(v)
        first_byte == bytes[1]
        extended ==
            IF /\ first_byte > 127
               /\ ~(/\ first_byte = 128
                    /\ \A i \in 2..Len(bytes) : bytes[i] = 0
                    /\ v.neg)
            THEN <<0>> \o bytes ELSE bytes
    IN IF v.neg THEN twos_complement_be(extended) ELSE extended

\* BigInt::from_signed_bytes_be
from_signed_bytes_be(digits) ==
    IF digits = <<>> THEN FromMagnitude(FALSE, <<>>)
    ELSE IF digits[1] > 127 THEN FromMagnitude(TRUE, twos_complement_be(digits))
    ELSE FromMagnitude(FALSE, digits)

\* BigInt::from_bytes_be(Sign::Plus, ..)
from_bytes_be(digits) == FromMagnitude(FALSE, digits)

\* let mut buffer = [0u8; 32]; buffer[32 - len..32].copy_from_slice(bytes)
RightAligned(bytes) == Zeros(WORD_SIZE - Len(bytes)) \o bytes

\* a length test that lets every value through
NeverTooLong(len) == FALSE

\* the length test both encoders make: len > 24
TooLong(len) == len > 24

encode_int192(value) ==
    LET bytes_value == to_signed_bytes_be(value)
    IN IF TooLong(Len(bytes_value)) THEN Err("InvalidLength")
       ELSE Ok(RightAligned(bytes_value))

\* data[offset..offset + 32], then its bytes 8..32 (offsets count from 0)
read_int192(data, offset) ==
    IF offset + WORD_SIZE > Len(data) THEN Err("DataTooShort")
    ELSE LET value_bytes == SubSeq(data, offset + 1, offset + WORD_SIZE)
         IN Ok(from_signed_bytes_be(SubSeq(value_bytes, 9, 32)))

encode_uint192(value) ==
    LET bytes_value == to_bytes_be(value)
    IN IF TooLong(Len(bytes_value)) THEN Err("InvalidLength")
       ELSE Ok(RightAligned(bytes_value))

read_uint192(data, offset) ==
    IF offset + WORD_SIZE > Len(data) THEN Err("DataTooShort")
    ELSE LET value_bytes == SubSeq(data, offset + 1, offset + WORD_SIZE)
         IN Ok(from_bytes_be(SubSeq(value_bytes, 9, 32)))

\* the values handed to the codec: 0, and both signs of every magnitude of 1
\* to MaxMagBytes bytes whose first byte is 1, 127, 128 or 255 and whose other
\* bytes are all 0 or all 255
Magnitudes ==
    {<<first>> \o [i \in 1..(n - 1) |-> fill] :
        n \in 1..MaxMagBytes, first \in {1, 127, 128, 255}, fill \in {0, 255}}

BigInts ==
    {FromMagnitude(FALSE, <<>>)}
    \cup {[neg |-> neg, mag |-> mag] : neg \in BOOLEAN, mag \in Magnitudes}

EncodeInt192 ==
    /\ op = "none"
    /\ op' = "encode_int192"
    /\ ret' = encode_int192(arg)
    /\ UNCHANGED <<arg, notPureVars>>

\* the word just encoded is read back
ReadInt192 ==
    /\ op = "encode_int192"
    /\ ret.ok
    /\ op' = "read_int192"
    /\ ret' = read_int192(ret.val, 0)
    /\ UNCHANGED <<arg, notPureVars>>

EncodeUint192 ==
    /\ op = "none"
    /\ op' = "encode_uint192"
    /\ ret' = encode_uint192(arg)
    /\ UNCHANGED <<arg, notPureVars>>

ReadUint192 ==
    /\ op = "encode_uint192"
    /\ ret.ok
    /\ op' = "read_uint192"
    /\ ret' = read_uint192(ret.val, 0)
    /\ UNCHANGED <<arg, notPureVars>>

(***************************************************************************)
(* The envelope codec of the report crate: decode_full_report              *)
(*                                                                         *)
(* A usize read by usize::from_be_bytes is kept as its 8 big-endian bytes, *)
(* so that the 64-bit fields keep their width.                             *)
(***************************************************************************)
\* the 8 bytes of a number below 2^31
U64(n) == [i \in 1..8 |-> IF i <= 4 THEN 0 ELSE (n \div (256 ^ (8 - i))) % 256]

\* the value is below 2^31
IsSmallU64(u) == (\A i \in 1..4 : u[i] = 0) /\ u[5] < 128

\* its value then
ValU64(u) == ((u[5] * 256 + u[6]) * 256 + u[7]) * 256 + u[8]

\* comparisons of a usize with a number below 2^31
LtU64(u, n) == IsSmallU64(u) /\ ValU64(u) < n
GeU64(u, n) == ~LtU64(u, n)
GtU64(u, n) == ~IsSmallU64(u) \/ ValU64(u) > n

\* a + b on usize: the sum modulo 2^64 and whether it overflowed
AddU64(a, b) ==
    LET carry[i \in 0..8] ==
            IF i = 8 THEN 0 ELSE (a[i + 1] + b[i + 1] + carry[i + 1]) \div 256
    IN [sum |-> [i \in 1..8 |-> (a[i] + b[i] + carry[i]) % 256],
        overflow |-> carry[0] = 1]

\* the thread panics: no value is returned
Panic == Err("panic")

\* a blob always taken at the conventional offset 128
report_blob_at_128(payload, start, end) == SubSeq(payload, 161, end)

\* payload[start..end].to_vec() (offsets count from 0)
report_blob(payload, start, end) == SubSeq(payload, start + 1, end)

\* decode_full_report; overflow_checks tells whether the build panics on
\* integer overflow (debug) or wraps (release)
decode_full_report(payload, overflow_checks) ==
    LET len == Len(payload)
        report_context == <<SubSeq(payload, 1, 32), SubSeq(payload, 33, 64),
                            SubSeq(payload, 65, 96)>>
        offset == SubSeq(payload, 121, 128)
        off == ValU64(offset)
        length == SubSeq(payload, off + 25, off + 32)
        end == AddU64(U64(off + WORD_SIZE), length)
    IN IF len < 128 THEN Err("DataTooShort(Payload is too short)")
       ELSE IF LtU64(offset, 128) \/ GeU64(offset, len)
       THEN Err("InvalidLength(offset)")
       \* payload[offset..offset + 32]: the range must lie in the payload
       ELSE IF off + WORD_SIZE > len THEN Panic
       ELSE IF end.overflow /\ overflow_checks THEN Panic
       ELSE IF GtU64(end.sum, len) THEN Err("InvalidLength(bytes data)")
       \* payload[offset + 32..offset + 32 + length]: start <= end is required
       ELSE IF off + WORD_SIZE > ValU64(end.sum) THEN Panic
       ELSE Ok([report_context |-> report_context,
                report_blob |-> report_blob(payload, off + WORD_SIZE,
                                            ValU64(end.sum))])

\* a byte that tells its position
Fill(i) == (i % 255) + 1

\* 2^32, 2^63, 2^64 - 161 and 2^64 - 1
HugeU64s ==
    {<<0, 0, 0, 1, 0, 0, 0, 0>>, <<128, 0, 0, 0, 0, 0, 0, 0>>,
     <<255, 255, 255, 255, 255, 255, 255, 95>>,
     <<255, 255, 255, 255, 255, 255, 255, 255>>}

\* a payload of len bytes: three context words, the offset word, and a length
\* word at the offset when the offset is 128 or more (cut where the payload
\* ends); every other byte is Fill
MakePayload(len, offset, length) ==
    [i \in 1..len |->
        IF i \in 97..120 THEN 0
        ELSE IF i \in 121..128 THEN offset[i - 120]
        ELSE IF i > 128 /\ IsSmallU64(offset) /\ i - 1 >= ValU64(offset)
                /\ i - 1 < ValU64(offset) + 32
        THEN IF i - ValU64(offset) <= 24 THEN 0
             ELSE length[i - ValU64(offset) - 24]
        ELSE Fill(i)]

PayloadLens == {0, 127} \cup (128..(128 + MaxTail))
OffsetFields == {U64(n) : n \in {0, 127} \cup (128..(128 + MaxTail + 1))} \cup HugeU64s
LengthFields == {U64(n) : n \in 0..MaxBlobLen} \cup HugeU64s

Payloads ==
    {MakePayload(len, offset, length) :
        len \in PayloadLens, offset \in OffsetFields, length \in LengthFields}

DecodeFullReport ==
    /\ op = "none"
    /\ op' = "decode_full_report"
    /\ ret' = decode_full_report(arg.payload, arg.overflow_checks)
    /\ UNCHANGED <<arg, notPureVars>>

(***************************************************************************)
(* The feed ID of the report crate: ID::from_hex_str and ID::to_hex_string *)
(*                                                                         *)
(* A str is the sequence of its characters, each a one-character string;   *)
(* "U+00E9" stands for a character outside ASCII, whose UTF-8 encoding     *)
(* takes two bytes.                                                        *)
(***************************************************************************)
HexDigits == <<"0", "1", "2", "3", "4", "5", "6", "7", "8", "9",
               "a", "b", "c", "d", "e", "f">>
UpperHexDigits == <<"0", "1", "2", "3", "4", "5", "6", "7", "8", "9",
                    "A", "B", "C", "D", "E", "F">>

\* the number of bytes of a character in UTF-8
Utf8Len(c) == IF c = "U+00E9" THEN 2 ELSE 1

\* str::len: the length in bytes
RECURSIVE StrLen(_)
StrLen(str) == IF str = <<>> THEN 0 ELSE Utf8Len(Head(str)) + StrLen(Tail(str))

IsWhitespace(c) == c \in {" ", "\t", "\n"}

RECURSIVE TrimStart(_)
TrimStart(str) ==
    IF str # <<>> /\ IsWhitespace(Head(str)) THEN TrimStart(Tail(str)) ELSE str

RECURSIVE TrimEnd(_)
TrimEnd(str) ==
    IF str # <<>> /\ IsWhitespace(str[Len(str)])
    THEN TrimEnd(SubSeq(str, 1, Len(str) - 1)) ELSE str

\* str::trim
Trim(str) == TrimEnd(TrimStart(str))

\* str::starts_with
starts_with(str, prefix) ==
    Len(str) >= Len(prefix) /\ SubSeq(str, 1, Len(prefix)) = prefix

\* a prefix test that knows the lowercase prefix only
HasLowercasePrefix(str) == starts_with(str, <<"0", "x">>)

\* s.starts_with("0x") || s.starts_with("0X")
HasPrefix(str) == starts_with(str, <<"0", "x">>) \/ starts_with(str, <<"0", "X">>)

IsHexDigit(c) == \E i \in 1..16 : HexDigits[i] = c \/ UpperHexDigits[i] = c
HexVal(c) == (CHOOSE i \in 1..16 : HexDigits[i] = c \/ UpperHexDigits[i] = c) - 1

\* <[u8; 32]>::from_hex of the hex crate: the length in bytes must be even and
\* twice 32, and every byte a hexadecimal digit
from_hex(hex_str) ==
    IF StrLen(hex_str) % 2 # 0 THEN Err("DecodeError")
    ELSE IF StrLen(hex_str) \div 2 # 32 THEN Err("DecodeError")
    ELSE IF \E i \in 1..Len(hex_str) : ~IsHexDigit(hex_str[i])
    THEN Err("DecodeError")
    ELSE Ok([i \in 1..32 |->
                16 * HexVal(hex_str[2 * i - 1]) + HexVal(hex_str[2 * i])])

\* ID::from_hex_str
from_hex_str(str) ==
    LET s == Trim(str)
        hex_str == SubSeq(s, 3, Len(s))
    IN IF ~HasPrefix(s) THEN Err("MissingPrefix")
       ELSE IF StrLen(hex_str) # 64 THEN Err("InvalidLength")
       ELSE from_hex(hex_str)

\* an encoder that writes uppercase digits
encode_hex_upper(bytes) ==
    [i \in 1..(2 * Len(bytes)) |->
        IF i % 2 = 1 THEN UpperHexDigits[(bytes[(i + 1) \div 2] \div 16) + 1]
        ELSE UpperHexDigits[(bytes[i \div 2] % 16) + 1]]

\* ToHex::encode_hex of the hex crate: two lowercase digits per byte
encode_hex(bytes) ==
    [i \in 1..(2 * Len(bytes)) |->
        IF i % 2 = 1 THEN HexDigits[(bytes[(i + 1) \div 2] \div 16) + 1]
        ELSE HexDigits[(bytes[i \div 2] % 16) + 1]]

\* ID::to_hex_string
to_hex_string(id) == <<"0", "x">> \o encode_hex(id)

\* the IDs under test: every byte the same, and a byte that tells its position
IDs ==
    {[i \in 1..32 |-> b] : b \in {0, 10, 127, 128, 171, 255}}
    \cup {[i \in 1..32 |-> (i * 37) % 256]}

\* the strings under test: optional whitespace, a prefix or none, a body of
\* about 64 hexadecimal digits in lowercase, uppercase or both, with or
\* without one character that is no digit, optional whitespace
BodyDigit(style, i) ==
    LET d == ((i * 7) % 16) + 1
    IN IF style = "upper" \/ (style = "mixed" /\ i % 2 = 0)
       THEN UpperHexDigits[d] ELSE HexDigits[d]

Bodies ==
    {[i \in 1..n |-> IF bad # "" /\ i = pos THEN bad ELSE BodyDigit(style, i)] :
        n \in {0, 3, 62, 63, 64, 65}, style \in {"lower", "upper", "mixed"},
        bad \in {"", "Z", "U+00E9"}, pos \in {1, 63}}

Prefixes == {<<>>, <<"0", "x">>, <<"0", "X">>, <<"x", "0">>}
Pads == {<<>>, <<" ">>, <<"\t", "\n">>}

HexStrings ==
    {lead \o prefix \o body \o trail :
        lead \in Pads, prefix \in Prefixes, body \in Bodies, trail \in Pads}

NoArg == <<>>

ToHexString ==
    /\ op = "none"
    /\ arg.id # NoArg
    /\ op' = "to_hex_string"
    /\ ret' = to_hex_string(arg.id)
    /\ UNCHANGED <<arg, notPureVars>>

\* the string just produced is parsed
FromHexStrOfToHexString ==
    /\ op = "to_hex_string"
    /\ op' = "from_hex_str(to_hex_string)"
    /\ ret' = from_hex_str(ret)
    /\ UNCHANGED <<arg, notPureVars>>

FromHexStr ==
    /\ op = "none"
    /\ arg.id = NoArg
    /\ op' = "from_hex_str"
    /\ ret' = from_hex_str(arg.str)
    /\ UNCHANGED <<arg, notPureVars>>

\* the ID just parsed is printed
ToHexStringOfFromHexStr ==
    /\ op = "from_hex_str"
    /\ ret.ok
    /\ op' = "to_hex_string(from_hex_str)"
    /\ ret' = to_hex_string(ret.val)
    /\ UNCHANGED <<arg, notPureVars>>

(***************************************************************************)
(* The configuration: Config::new, the ConfigBuilder setters and build     *)
(***************************************************************************)
DEFAULT_WS_HA == "Disabled"
DEFAULT_INSECURE_SKIP_VERIFY == "Disabled"
DEFAULT_INSPECT_HTTP_RESPONSE == "None"

\* Config::new: the builder with the four arguments and the defaults
ConfigNew(api_key, api_secret, rest_url, ws_url) ==
    [api_key |-> api_key,
     api_secret |-> api_secret,
     rest_url |-> rest_url,
     ws_url |-> ws_url,
     ws_ha |-> DEFAULT_WS_HA,
     ws_max_reconnect |-> DEFAULT_WS_MAX_RECONNECT,
     insecure_skip_verify |-> DEFAULT_INSECURE_SKIP_VERIFY,
     inspect_http_response |-> DEFAULT_INSPECT_HTTP_RESPONSE]

\* an emptiness test without the trim
IsEmptyUntrimmed(str) == str = <<>>

\* self.api_key.trim().is_empty()
TrimIsEmpty(str) == Trim(str) = <<>>

\* ConfigBuilder::build
build(builder) ==
    IF TrimIsEmpty(builder.api_key) THEN Err("EmptyApiKey")
    ELSE IF TrimIsEmpty(builder.api_secret) THEN Err("EmptyApiSecret")
    ELSE Ok(builder)

\* the keys and secrets under test: empty, whitespace only, plain, padded
Credentials == {<<>>, <<" ">>, <<"\t", "\n">>, <<"k">>, <<" ", "k", " ">>}
Urls == {<<>>, <<"u">>}
Unset == "unset"

\* Config::new is called; ret holds the builder, what build returned and, for
\* each setter, the set of the value it was last called with (empty before)
ConfigNewCall ==
    /\ op = "none"
    /\ op' = "builder"
    /\ ret' = [builder |-> ConfigNew(arg.api_key, arg.api_secret, arg.rest_url,
                                     arg.ws_url),
               set |-> [ws_ha |-> {}, ws_max_reconnect |-> {},
                        insecure_skip_verify |-> {},
                        inspect_http_response |-> {}],
               result |-> Unset]
    /\ UNCHANGED <<arg, notPureVars>>

with_ws_ha(v) ==
    /\ op = "builder"
    /\ ret' = [ret EXCEPT !.builder.ws_ha = v, !.set.ws_ha = {v}]
    /\ UNCHANGED <<arg, op, notPureVars>>

with_ws_max_reconnect(v) ==
    /\ op = "builder"
    /\ ret' = [ret EXCEPT !.builder.ws_max_reconnect = v,
                          !.set.ws_max_reconnect = {v}]
    /\ UNCHANGED <<arg, op, notPureVars>>

with_insecure_skip_verify(v) ==
    /\ op = "builder"
    /\ ret' = [ret EXCEPT !.builder.insecure_skip_verify = v,
                          !.set.insecure_skip_verify = {v}]
    /\ UNCHANGED <<arg, op, notPureVars>>

with_inspect_http_response(v) ==
    /\ op = "builder"
    /\ ret' = [ret EXCEPT !.builder.inspect_http_response = v,
                          !.set.inspect_http_response = {v}]
    /\ UNCHANGED <<arg, op, notPureVars>>

Build ==
    /\ op = "builder"
    /\ op' = "build"
    /\ ret' = [ret EXCEPT !.result = build(ret.builder)]
    /\ UNCHANGED <<arg, notPureVars>>

(***************************************************************************)
(* The versioned report schemas of the report crate: ReportDataV1 ..       *)
(* ReportDataV13, their decode and abi_encode.                             *)
(*                                                                         *)
(* A u8, u32, u64 or i64 is its to_be_bytes(): 1, 4 or 8 big-endian bytes, *)
(* so that the values keep their width.  An ID and a [u8; 32] are their 32 *)
(* bytes.                                                                  *)
(***************************************************************************)
\* &data[a..b] (offsets count from 0): a range past the end panics
slice(data, a, b) ==
    IF b > Len(data) THEN Panic ELSE Ok(SubSeq(data, a + 1, b))

\* read_uint32 without its length test: the slice is taken at once
read_uint32_unchecked(data, offset) ==
    LET value_bytes == slice(data, offset, offset + WORD_SIZE)
    IN IF value_bytes.ok THEN Ok(SubSeq(value_bytes.val, 29, 32)) ELSE value_bytes

\* u32::from_be_bytes(value_bytes[28..32])
read_uint32(data, offset) ==
    IF offset + WORD_SIZE > Len(data) THEN Err("DataTooShort")
    ELSE LET value_bytes == SubSeq(data, offset + 1, offset + WORD_SIZE)
         IN Ok(SubSeq(value_bytes, 29, 32))

encode_uint32(value) ==
    LET bytes_value == value
        len == Len(bytes_value)
    IN IF len > 4 THEN Err("InvalidLength") ELSE Ok(RightAligned(bytes_value))

\* u64::from_be_bytes(value_bytes[24..32])
read_uint64(data, offset) ==
    IF offset + WORD_SIZE > Len(data) THEN Err("DataTooShort")
    ELSE LET value_bytes == SubSeq(data, offset + 1, offset + WORD_SIZE)
         IN Ok(SubSeq(value_bytes, 25, 32))

encode_uint64(value) ==
    LET bytes_value == value
        len == Len(bytes_value)
    IN IF len > 8 THEN Err("InvalidLength") ELSE Ok(RightAligned(bytes_value))

\* i64::from_be_bytes(value_bytes[24..32])
read_int64(data, offset) ==
    IF offset + WORD_SIZE > Len(data) THEN Err("DataTooShort")
    ELSE LET value_bytes == SubSeq(data, offset + 1, offset + WORD_SIZE)
         IN Ok(SubSeq(value_bytes, 25, 32))

\* the buffer starts as [0u8; 32] for a negative value too
encode_int64(value) ==
    LET bytes_value == value
        len == Len(bytes_value)
    IN IF len > 8 THEN Err("InvalidLength") ELSE Ok(RightAligned(bytes_value))

\* ReportBase::read_uint8 and encode_uint8, which ReportDataV8 calls: the
\* rightmost byte of the word, the other bytes zero
read_uint8(data, offset) ==
    IF offset + WORD_SIZE > Len(data) THEN Err("DataTooShort")
    ELSE LET value_bytes == SubSeq(data, offset + 1, offset + WORD_SIZE)
         IN Ok(SubSeq(value_bytes, 32, 32))

encode_uint8(value) == Ok(RightAligned(value))

\* v1.rs: the struct, decode and abi_encode
ReportDataV1 ==
    [fields |-> <<[name |-> "feed_id", type |-> "ID"],
                 [name |-> "observations_timestamp", type |-> "u32"],
                 [name |-> "benchmark_price", type |-> "BigInt"],
                 [name |-> "bid", type |-> "BigInt"],
                 [name |-> "ask", type |-> "BigInt"],
                 [name |-> "current_block_num", type |-> "u64"],
                 [name |-> "current_block_hash", type |-> "[u8;32]"],
                 [name |-> "valid_from_block_num", type |-> "u64"],
                 [name |-> "current_block_timestamp", type |-> "u64"]>>,
     min_words |-> 9,
     reads |-> <<[name |-> "feed_id", by |-> "slice", word |-> 0],
                [name |-> "observations_timestamp", by |-> "read_uint32", word |-> 1],
                [name |-> "benchmark_price", by |-> "read_int192", word |-> 2],
                [name |-> "bid", by |-> "read_int192", word |-> 3],
                [name |-> "ask", by |-> "read_int192", word |-> 4],
                [name |-> "current_block_num", by |-> "read_uint64", word |-> 5],
                [name |-> "current_block_hash", by |-> "slice", word |-> 6],
                [name |-> "valid_from_block_num", by |-> "read_uint64", word |-> 7],
                [name |-> "current_block_timestamp", by |-> "read_uint64", word |-> 8]>>,
     returns |-> <<"feed_id",
                  "observations_timestamp",
                  "benchmark_price",
                  "bid",
                  "ask",
                  "current_block_num",
                  "current_block_hash",
                  "valid_from_block_num",
                  "current_block_timestamp">>,
     writes |-> <<[name |-> "feed_id", by |-> "copy"],
                 [name |-> "observations_timestamp", by |-> "encode_uint32"],
                 [name |-> "benchmark_price", by |-> "encode_int192"],
                 [name |-> "bid", by |-> "encode_int192"],
                 [name |-> "ask", by |-> "encode_int192"],
                 [name |-> "current_block_num", by |-> "encode_uint64"],
                 [name |-> "current_block_hash", by |-> "copy"],
                 [name |-> "valid_from_block_num", by |-> "encode_uint64"],
                 [name |-> "current_block_timestamp", by |-> "encode_uint64"]>>]

\* v2.rs: the struct, decode and abi_encode
ReportDataV2 ==
    [fields |-> <<[name |-> "feed_id", type |-> "ID"],
                 [name |-> "valid_from_timestamp", type |-> "u32"],
                 [name |-> "observations_timestamp", type |-> "u32"],
                 [name |-> "native_fee", type |-> "BigInt"],
                 [name |-> "link_fee", type |-> "BigInt"],
                 [name |-> "expires_at", type |-> "u32"],
                 [name |-> "benchmark_price", type |-> "BigInt"]>>,
     min_words |-> 7,
     reads |-> <<[name |-> "feed_id", by |-> "slice", word |-> 0],
                [name |-> "valid_from_timestamp", by |-> "read_uint32", word |-> 1],
                [name |-> "observations_timestamp", by |-> "read_uint32", word |-> 2],
                [name |-> "native_fee", by |-> "read_uint192", word |-> 3],
                [name |-> "link_fee", by |-> "read_uint192", word |-> 4],
                [name |-> "expires_at", by |-> "read_uint32", word |-> 5],
                [name |-> "benchmark_price", by |-> "read_int192", word |-> 6]>>,
     returns |-> <<"feed_id",
                  "valid_from_timestamp",
                  "observations_timestamp",
                  "native_fee",
                  "link_fee",
                  "expires_at",
                  "benchmark_price">>,
     writes |-> <<[name |-> "feed_id", by |-> "copy"],
                 [name |-> "valid_from_timestamp", by |-> "encode_uint32"],
                 [name |-> "observations_timestamp", by |-> "encode_uint32"],
                 [name |-> "native_fee", by |-> "encode_uint192"],
                 [name |-> "link_fee", by |-> "encode_uint192"],
                 [name |-> "expires_at", by |-> "encode_uint32"],
                 [name |-> "benchmark_price", by |-> "encode_int192"]>>]

\* v3.rs: the struct, decode and abi_encode
ReportDataV3 ==
    [fields |-> <<[name |-> "feed_id", type |-> "ID"],
                 [name |-> "valid_from_timestamp", type |-> "u32"],
                 [name |-> "observations_timestamp", type |-> "u32"],
                 [name |-> "native_fee", type |-> "BigInt"],
                 [name |-> "link_fee", type |-> "BigInt"],
                 [name |-> "expires_at", type |-> "u32"],
                 [name |-> "benchmark_price", type |-> "BigInt"],
                 [name |-> "bid", type |-> "BigInt"],
                 [name |-> "ask", type |-> "BigInt"]>>,
     min_words |-> 9,
     reads |-> <<[name |-> "feed_id", by |-> "slice", word |-> 0],
                [name |-> "valid_from_timestamp", by |-> "read_uint32", word |-> 1],
                [name |-> "observations_timestamp", by |-> "read_uint32", word |-> 2],
                [name |-> "native_fee", by |-> "read_uint192", word |-> 3],
                [name |-> "link_fee", by |-> "read_uint192", word |-> 4],
                [name |-> "expires_at", by |-> "read_uint32", word |-> 5],
                [name |-> "benchmark_price", by |-> "read_int192", word |-> 6],
                [name |-> "bid", by |-> "read_int192", word |-> 7],
                [name |-> "ask", by |-> "read_int192", word |-> 8]>>,
     returns |-> <<"feed_id",
                  "valid_from_timestamp",
                  "observations_timestamp",
                  "native_fee",
                  "link_fee",
                  "expires_at",
                  "benchmark_price",
                  "bid",
                  "ask">>,
     writes |-> <<[name |-> "feed_id", by |-> "copy"],
                 [name |-> "valid_from_timestamp", by |-> "encode_uint32"],
                 [name |-> "observations_timestamp", by |-> "encode_uint32"],
                 [name |-> "native_fee", by |-> "encode_uint192"],
                 [name |-> "link_fee", by |-> "encode_uint192"],
                 [name |-> "expires_at", by |-> "encode_uint32"],
                 [name |-> "benchmark_price", by |-> "encode_int192"],
                 [name |-> "bid", by |-> "encode_int192"],
                 [name |-> "ask", by |-> "encode_int192"]>>]

\* v4.rs: the struct, decode and abi_encode
ReportDataV4 ==
    [fields |-> <<[name |-> "feed_id", type |-> "ID"],
                 [name |-> "valid_from_timestamp", type |-> "u32"],
                 [name |-> "observations_timestamp", type |-> "u32"],
                 [name |-> "native_fee", type |-> "BigInt"],
                 [name |-> "link_fee", type |-> "BigInt"],
                 [name |-> "expires_at", type |-> "u32"],
                 [name |-> "price", type |-> "BigInt"],
                 [name |-> "market_status", type |-> "u32"]>>,
     min_words |-> 8,
     reads |-> <<[name |-> "feed_id", by |-> "slice", word |-> 0],
                [name |-> "valid_from_timestamp", by |-> "read_uint32", word |-> 1],
                [name |-> "observations_timestamp", by |-> "read_uint32", word |-> 2],
                [name |-> "native_fee", by |-> "read_uint192", word |-> 3],
                [name |-> "link_fee", by |-> "read_uint192", word |-> 4],
                [name |-> "expires_at", by |-> "read_uint32", word |-> 5],
                [name |-> "price", by |-> "read_int192", word |-> 6],
                [name |-> "market_status", by |-> "read_uint32", word |-> 7]>>,
     returns |-> <<"feed_id",
                  "valid_from_timestamp",
                  "observations_timestamp",
                  "native_fee",
                  "link_fee",
                  "expires_at",
                  "price",
                  "market_status">>,
     writes |-> <<[name |-> "feed_id", by |-> "copy"],
                 [name |-> "valid_from_timestamp", by |-> "encode_uint32"],
                 [name |-> "observations_timestamp", by |-> "encode_uint32"],
                 [name |-> "native_fee", by |-> "encode_uint192"],
                 [name |-> "link_fee", by |-> "encode_uint192"],
                 [name |-> "expires_at", by |-> "encode_uint32"],
                 [name |-> "price", by |-> "encode_int192"],
                 [name |-> "market_status", by |-> "encode_uint32"]>>]

\* v5.rs: the struct, decode and abi_encode
ReportDataV5 ==
    [fields |-> <<[name |-> "feed_id", type |-> "ID"],
                 [name |-> "valid_from_timestamp", type |-> "u32"],
                 [name |-> "observations_timestamp", type |-> "u32"],
                 [name |-> "native_fee", type |-> "BigInt"],
                 [name |-> "link_fee", type |-> "BigInt"],
                 [name |-> "expires_at", type |-> "u32"],
                 [name |-> "rate", type |-> "BigInt"],
                 [name |-> "timestamp", type |-> "u32"],
                 [name |-> "duration", type |-> "u32"]>>,
     min_words |-> 9,
     reads |-> <<[name |-> "feed_id", by |-> "slice", word |-> 0],
                [name |-> "valid_from_timestamp", by |-> "read_uint32", word |-> 1],
                [name |-> "observations_timestamp", by |-> "read_uint32", word |-> 2],
                [name |-> "native_fee", by |-> "read_uint192", word |-> 3],
                [name |-> "link_fee", by |-> "read_uint192", word |-> 4],
                [name |-> "expires_at", by |-> "read_uint32", word |-> 5],
                [name |-> "rate", by |-> "read_int192", word |-> 6],
                [name |-> "timestamp", by |-> "read_uint32", word |-> 7],
                [name |-> "duration", by |-> "read_uint32", word |-> 8]>>,
     returns |-> <<"feed_id",
                  "valid_from_timestamp",
                  "observations_timestamp",
                  "native_fee",
                  "link_fee",
                  "expires_at",
                  "rate",
                  "timestamp",
                  "duration">>,
     writes |-> <<[name |-> "feed_id", by |-> "copy"],
                 [name |-> "valid_from_timestamp", by |-> "encode_uint32"],
                 [name |-> "observations_timestamp", by |-> "encode_uint32"],
                 [name |-> "native_fee", by |-> "encode_uint192"],
                 [name |-> "link_fee", by |-> "encode_uint192"],
                 [name |-> "expires_at", by |-> "encode_uint32"],
                 [name |-> "rate", by |-> "encode_int192"],
                 [name |-> "timestamp", by |-> "encode_uint32"],
                 [name |-> "duration", by |-> "encode_uint32"]>>]

\* v7.rs: the struct, decode and abi_encode
ReportDataV7 ==
    [fields |-> <<[name |-> "feed_id", type |-> "ID"],
                 [name |-> "valid_from_timestamp", type |-> "u32"],
                 [name |-> "observations_timestamp", type |-> "u32"],
                 [name |-> "native_fee", type |-> "BigInt"],
                 [name |-> "link_fee", type |-> "BigInt"],
                 [name |-> "expires_at", type |-> "u32"],
                 [name |-> "exchange_rate", type |-> "BigInt"]>>,
     min_words |-> 7,
     reads |-> <<[name |-> "feed_id", by |-> "slice", word |-> 0],
                [name |-> "valid_from_timestamp", by |-> "read_uint32", word |-> 1],
                [name |-> "observations_timestamp", by |-> "read_uint32", word |-> 2],
                [name |-> "native_fee", by |-> "read_uint192", word |-> 3],
                [name |-> "link_fee", by |-> "read_uint192", word |-> 4],
                [name |-> "expires_at", by |-> "read_uint32", word |-> 5],
                [name |-> "exchange_rate", by |-> "read_int192", word |-> 6]>>,
     returns |-> <<"feed_id",
                  "valid_from_timestamp",
                  "observations_timestamp",
                  "native_fee",
                  "link_fee",
                  "expires_at",
                  "exchange_rate">>,
     writes |-> <<[name |-> "feed_id", by |-> "copy"],
                 [name |-> "valid_from_timestamp", by |-> "encode_uint32"],
                 [name |-> "observations_timestamp", by |-> "encode_uint32"],
                 [name |-> "native_fee", by |-> "encode_uint192"],
                 [name |-> "link_fee", by |-> "encode_uint192"],
                 [name |-> "expires_at", by |-> "encode_uint32"],
                 [name |-> "exchange_rate", by |-> "encode_int192"]>>]

\* v8.rs: the struct, decode and abi_encode
ReportDataV8 ==
    [fields |-> <<[name |-> "feed_id", type |-> "ID"],
                 [name |-> "valid_from_timestamp", type |-> "u32"],
                 [name |-> "observations_timestamp", type |-> "u32"],
                 [name |-> "native_fee", type |-> "BigInt"],
                 [name |-> "link_fee", type |-> "BigInt"],
                 [name |-> "expires_at", type |-> "u32"],
                 [name |-> "last_update_timestamp", type |-> "u64"],
                 [name |-> "mid_price", type |-> "BigInt"],
                 [name |-> "market_status", type |-> "u8"]>>,
     min_words |-> 9,
     reads |-> <<[name |-> "feed_id", by |-> "slice", word |-> 0],
                [name |-> "valid_from_timestamp", by |-> "read_uint32", word |-> 1],
                [name |-> "observations_timestamp", by |-> "read_uint32", word |-> 2],
                [name |-> "native_fee", by |-> "read_uint192", word |-> 3],
                [name |-> "link_fee", by |-> "read_uint192", word |-> 4],
                [name |-> "expires_at", by |-> "read_uint32", word |-> 5],
                [name |-> "last_update_timestamp", by |-> "read_uint64", word |-> 6],
                [name |-> "mid_price", by |-> "read_int192", word |-> 7],
                [name |-> "market_status", by |-> "read_uint8", word |-> 8]>>,
     returns |-> <<"feed_id",
                  "valid_from_timestamp",
                  "observations_timestamp",
                  "native_fee",
                  "link_fee",
                  "expires_at",
                  "last_update_timestamp",
                  "mid_price",
                  "market_status">>,
     writes |-> <<[name |-> "feed_id", by |-> "copy"],
                 [name |-> "valid_from_timestamp", by |-> "encode_uint32"],
                 [name |-> "observations_timestamp", by |-> "encode_uint32"],
                 [name |-> "native_fee", by |-> "encode_uint192"],
                 [name |-> "link_fee", by |-> "encode_uint192"],
                 [name |-> "expires_at", by |-> "encode_uint32"],
                 [name |-> "last_update_timestamp", by |-> "encode_uint64"],
                 [name |-> "mid_price", by |-> "encode_int192"],
                 [name |-> "market_status", by |-> "encode_uint8"]>>]

\* v9.rs: the struct, decode and abi_encode
ReportDataV9 ==
    [fields |-> <<[name |-> "feed_id", type |-> "ID"],
                 [name |-> "valid_from_timestamp", type |-> "u32"],
                 [name |-> "observations_timestamp", type |-> "u32"],
                 [name |-> "native_fee", type |-> "BigInt"],
                 [name |-> "link_fee", type |-> "BigInt"],
                 [name |-> "expires_at", type |-> "u32"],
                 [name |-> "nav_per_share", type |-> "BigInt"],
                 [name |-> "nav_date", type |-> "u64"],
                 [name |-> "aum", type |-> "BigInt"],
                 [name |-> "ripcord", type |-> "u32"]>>,
     min_words |-> 10,
     reads |-> <<[name |-> "feed_id", by |-> "slice", word |-> 0],
                [name |-> "valid_from_timestamp", by |-> "read_uint32", word |-> 1],
                [name |-> "observations_timestamp", by |-> "read_uint32", word |-> 2],
                [name |-> "native_fee", by |-> "read_uint192", word |-> 3],
                [name |-> "link_fee", by |-> "read_uint192", word |-> 4],
                [name |-> "expires_at", by |-> "read_uint32", word |-> 5],
                [name |-> "nav_per_share", by |-> "read_int192", word |-> 6],
                [name |-> "nav_date", by |-> "read_uint64", word |-> 7],
                [name |-> "aum", by |-> "read_int192", word |-> 8],
                [name |-> "ripcord", by |-> "read_uint32", word |-> 9]>>,
     returns |-> <<"feed_id",
                  "valid_from_timestamp",
                  "observations_timestamp",
                  "native_fee",
                  "link_fee",
                  "expires_at",
                  "nav_per_share",
                  "nav_date",
                  "aum",
                  "ripcord">>,
     writes |-> <<[name |-> "feed_id", by |-> "copy"],
                 [name |-> "valid_from_timestamp", by |-> "encode_uint32"],
                 [name |-> "observations_timestamp", by |-> "encode_uint32"],
                 [name |-> "native_fee", by |-> "encode_uint192"],
                 [name |-> "link_fee", by |-> "encode_uint192"],
                 [name |-> "expires_at", by |-> "encode_uint32"],
                 [name |-> "nav_per_share", by |-> "encode_int192"],
                 [name |-> "nav_date", by |-> "encode_uint64"],
                 [name |-> "aum", by |-> "encode_int192"],
                 [name |-> "ripcord", by |-> "encode_uint32"]>>]

\* v10.rs: the struct, decode and abi_encode
ReportDataV10 ==
    [fields |-> <<[name |-> "feed_id", type |-> "ID"],
                 [name |-> "valid_from_timestamp", type |-> "u32"],
                 [name |-> "observations_timestamp", type |-> "u32"],
                 [name |-> "native_fee", type |-> "BigInt"],
                 [name |-> "link_fee", type |-> "BigInt"],
                 [name |-> "expires_at", type |-> "u32"],
                 [name |-> "last_update_timestamp", type |-> "u64"],
                 [name |-> "price", type |-> "BigInt"],
                 [name |-> "market_status", type |-> "u32"],
                 [name |-> "current_multiplier", type |-> "BigInt"],
                 [name |-> "new_multiplier", type |-> "BigInt"],
                 [name |-> "activation_date_time", type |-> "u32"],
                 [name |-> "tokenized_price", type |-> "BigInt"]>>,
     min_words |-> 13,
     reads |-> <<[name |-> "feed_id", by |-> "slice", word |-> 0],
                [name |-> "valid_from_timestamp", by |-> "read_uint32", word |-> 1],
                [name |-> "observations_timestamp", by |-> "read_uint32", word |-> 2],
                [name |-> "native_fee", by |-> "read_uint192", word |-> 3],
                [name |-> "link_fee", by |-> "read_uint192", word |-> 4],
                [name |-> "expires_at", by |-> "read_uint32", word |-> 5],
                [name |-> "last_update_timestamp", by |-> "read_uint64", word |-> 6],
                [name |-> "price", by |-> "read_int192", word |-> 7],
                [name |-> "market_status", by |-> "read_uint32", word |-> 8],
                [name |-> "current_multiplier", by |-> "read_int192", word |-> 9],
                [name |-> "new_multiplier", by |-> "read_int192", word |-> 10],
                [name |-> "activation_date_time", by |-> "read_uint32", word |-> 11],
                [name |-> "tokenized_price", by |-> "read_int192", word |-> 12]>>,
     returns |-> <<"feed_id",
                  "valid_from_timestamp",
                  "observations_timestamp",
                  "native_fee",
                  "link_fee",
                  "expires_at",
                  "last_update_timestamp",
                  "price",
                  "market_status",
                  "current_multiplier",
                  "new_multiplier",
                  "activation_date_time",
                  "tokenized_price">>,
     writes |-> <<[name |-> "feed_id", by |-> "copy"],
                 [name |-> "valid_from_timestamp", by |-> "encode_uint32"],
                 [name |-> "observations_timestamp", by |-> "encode_uint32"],
                 [name |-> "native_fee", by |-> "encode_uint192"],
                 [name |-> "link_fee", by |-> "encode_uint192"],
                 [name |-> "expires_at", by |-> "encode_uint32"],
                 [name |-> "last_update_timestamp", by |-> "encode_uint64"],
                 [name |-> "price", by |-> "encode_int192"],
                 [name |-> "market_status", by |-> "encode_uint32"],
                 [name |-> "current_multiplier", by |-> "encode_int192"],
                 [name |-> "new_multiplier", by |-> "encode_int192"],
                 [name |-> "activation_date_time", by |-> "encode_uint32"],
                 [name |-> "tokenized_price", by |-> "encode_int192"]>>]

\* v11.rs: the struct, decode and abi_encode
ReportDataV11 ==
    [fields |-> <<[name |-> "feed_id", type |-> "ID"],
                 [name |-> "valid_from_timestamp", type |-> "u32"],
                 [name |-> "observations_timestamp", type |-> "u32"],
                 [name |-> "native_fee", type |-> "BigInt"],
                 [name |-> "link_fee", type |-> "BigInt"],
                 [name |-> "expires_at", type |-> "u32"],
                 [name |-> "mid", type |-> "BigInt"],
                 [name |-> "last_seen_timestamp_ns", type |-> "u64"],
                 [name |-> "bid", type |-> "BigInt"],
                 [name |-> "bid_volume", type |-> "u64"],
                 [name |-> "ask", type |-> "BigInt"],
                 [name |-> "ask_volume", type |-> "u64"],
                 [name |-> "last_traded_price", type |-> "BigInt"],
                 [name |-> "market_status", type |-> "u32"]>>,
     min_words |-> 13,
     reads |-> <<[name |-> "feed_id", by |-> "slice", word |-> 0],
                [name |-> "valid_from_timestamp", by |-> "read_uint32", word |-> 1],
                [name |-> "observations_timestamp", by |-> "read_uint32", word |-> 2],
                [name |-> "native_fee", by |-> "read_uint192", word |-> 3],
                [name |-> "link_fee", by |-> "read_uint192", word |-> 4],
                [name |-> "expires_at", by |-> "read_uint32", word |-> 5],
                [name |-> "mid", by |-> "read_int192", word |-> 6],
                [name |-> "last_seen_timestamp_ns", by |-> "read_uint64", word |-> 7],
                [name |-> "bid", by |-> "read_int192", word |-> 8],
                [name |-> "bid_volume", by |-> "read_uint64", word |-> 9],
                [name |-> "ask", by |-> "read_int192", word |-> 10],
                [name |-> "ask_volume", by |-> "read_uint64", word |-> 11],
                [name |-> "last_traded_price", by |-> "read_int192", word |-> 12],
                [name |-> "market_status", by |-> "read_uint32", word |-> 13]>>,
     returns |-> <<"feed_id",
                  "valid_from_timestamp",
                  "observations_timestamp",
                  "native_fee",
                  "link_fee",
                  "expires_at",
                  "mid",
                  "last_seen_timestamp_ns",
                  "bid",
                  "bid_volume",
                  "ask",
                  "ask_volume",
                  "last_traded_price",
                  "market_status">>,
     writes |-> <<[name |-> "feed_id", by |-> "copy"],
                 [name |-> "valid_from_timestamp", by |-> "encode_uint32"],
                 [name |-> "observations_timestamp", by |-> "encode_uint32"],
                 [name |-> "native_fee", by |-> "encode_uint192"],
                 [name |-> "link_fee", by |-> "encode_uint192"],
                 [name |-> "expires_at", by |-> "encode_uint32"],
                 [name |-> "mid", by |-> "encode_int192"],
                 [name |-> "last_seen_timestamp_ns", by |-> "encode_uint64"],
                 [name |-> "bid", by |-> "encode_int192"],
                 [name |-> "bid_volume", by |-> "encode_uint64"],
                 [name |-> "ask", by |-> "encode_int192"],
                 [name |-> "ask_volume", by |-> "encode_uint64"],
                 [name |-> "last_traded_price", by |-> "encode_int192"],
                 [name |-> "market_status", by |-> "encode_uint32"]>>]

\* v12.rs: the struct, decode and abi_encode
ReportDataV12 ==
    [fields |-> <<[name |-> "feed_id", type |-> "ID"],
                 [name |-> "valid_from_timestamp", type |-> "u32"],
                 [name |-> "observations_timestamp", type |-> "u32"],
                 [name |-> "native_fee", type |-> "BigInt"],
                 [name |-> "link_fee", type |-> "BigInt"],
                 [name |-> "expires_at", type |-> "u32"],
                 [name |-> "nav_per_share", type |-> "BigInt"],
                 [name |-> "next_nav_per_share", type |-> "BigInt"],
                 [name |-> "nav_date", type |-> "i64"],
                 [name |-> "ripcord", type |-> "u32"]>>,
     min_words |-> 10,
     reads |-> <<[name |-> "feed_id", by |-> "slice", word |-> 0],
                [name |-> "valid_from_timestamp", by |-> "read_uint32", word |-> 1],
                [name |-> "observations_timestamp", by |-> "read_uint32", word |-> 2],
                [name |-> "native_fee", by |-> "read_uint192", word |-> 3],
                [name |-> "link_fee", by |-> "read_uint192", word |-> 4],
                [name |-> "expires_at", by |-> "read_uint32", word |-> 5],
                [name |-> "nav_per_share", by |-> "read_int192", word |-> 6],
                [name |-> "next_nav_per_share", by |-> "read_int192", word |-> 7],
                [name |-> "nav_date", by |-> "read_int64", word |-> 8],
                [name |-> "ripcord", by |-> "read_uint32", word |-> 9]>>,
     returns |-> <<"feed_id",
                  "valid_from_timestamp",
                  "observations_timestamp",
                  "native_fee",
                  "link_fee",
                  "expires_at",
                  "nav_per_share",
                  "next_nav_per_share",
                  "nav_date",
                  "ripcord">>,
     writes |-> <<[name |-> "feed_id", by |-> "copy"],
                 [name |-> "valid_from_timestamp", by |-> "encode_uint32"],
                 [name |-> "observations_timestamp", by |-> "encode_uint32"],
                 [name |-> "native_fee", by |-> "encode_uint192"],
                 [name |-> "link_fee", by |-> "encode_uint192"],
                 [name |-> "expires_at", by |-> "encode_uint32"],
                 [name |-> "nav_per_share", by |-> "encode_int192"],
                 [name |-> "next_nav_per_share", by |-> "encode_int192"],
                 [name |-> "nav_date", by |-> "encode_int64"],
                 [name |-> "ripcord", by |-> "encode_uint32"]>>]

\* v13.rs: the struct, decode and abi_encode
ReportDataV13 ==
    [fields |-> <<[name |-> "feed_id", type |-> "ID"],
                 [name |-> "valid_from_timestamp", type |-> "u32"],
                 [name |-> "observations_timestamp", type |-> "u32"],
                 [name |-> "native_fee", type |-> "BigInt"],
                 [name |-> "link_fee", type |-> "BigInt"],
                 [name |-> "expires_at", type |-> "u32"],
                 [name |-> "last_update_timestamp", type |-> "u64"],
                 [name |-> "best_ask", type |-> "BigInt"],
                 [name |-> "best_bid", type |-> "BigInt"],
                 [name |-> "ask_volume", type |-> "u64"],
                 [name |-> "bid_volume", type |-> "u64"],
                 [name |-> "last_traded_price", type |-> "BigInt"]>>,
     min_words |-> 12,
     reads |-> <<[name |-> "feed_id", by |-> "slice", word |-> 0],
                [name |-> "valid_from_timestamp", by |-> "read_uint32", word |-> 1],
                [name |-> "observations_timestamp", by |-> "read_uint32", word |-> 2],
                [name |-> "native_fee", by |-> "read_uint192", word |-> 3],
                [name |-> "link_fee", by |-> "read_uint192", word |-> 4],
                [name |-> "expires_at", by |-> "read_uint32", word |-> 5],
                [name |-> "best_ask", by |-> "read_int192", word |-> 7],
                [name |-> "best_bid", by |-> "read_int192", word |-> 8],
                [name |-> "ask_volume", by |-> "read_uint64", word |-> 9],
                [name |-> "bid_volume", by |-> "read_uint64", word |-> 10],
                [name |-> "last_traded_price", by |-> "read_int192", word |-> 11]>>,
     returns |-> <<"feed_id",
                  "valid_from_timestamp",
                  "observations_timestamp",
                  "native_fee",
                  "link_fee",
                  "expires_at",
                  "best_ask",
                  "best_bid",
                  "ask_volume",
                  "bid_volume",
                  "last_traded_price">>,
     writes |-> <<[name |-> "feed_id", by |-> "copy"],
                 [name |-> "valid_from_timestamp", by |-> "encode_uint32"],
                 [name |-> "observations_timestamp", by |-> "encode_uint32"],
                 [name |-> "native_fee", by |-> "encode_uint192"],
                 [name |-> "link_fee", by |-> "encode_uint192"],
                 [name |-> "expires_at", by |-> "encode_uint32"],
                 [name |-> "last_update_timestamp", by |-> "encode_uint64"],
                 [name |-> "best_ask", by |-> "encode_int192"],
                 [name |-> "best_bid", by |-> "encode_int192"],
                 [name |-> "ask_volume", by |-> "encode_uint64"],
                 [name |-> "bid_volume", by |-> "encode_uint64"],
                 [name |-> "last_traded_price", by |-> "encode_int192"]>>]

Versions == {1, 2, 3, 4, 5, 7, 8, 9, 10, 11, 12, 13}

Schema(v) ==
    CASE v = 1 -> ReportDataV1
      [] v = 2 -> ReportDataV2
      [] v = 3 -> ReportDataV3
      [] v = 4 -> ReportDataV4
      [] v = 5 -> ReportDataV5
      [] v = 7 -> ReportDataV7
      [] v = 8 -> ReportDataV8
      [] v = 9 -> ReportDataV9
      [] v = 10 -> ReportDataV10
      [] v = 11 -> ReportDataV11
      [] v = 12 -> ReportDataV12
      [] v = 13 -> ReportDataV13

\* one `let name = ...?;` of decode
read_field(by, data, offset) ==
    CASE by = "slice" -> slice(data, offset, offset + WORD_SIZE)
      [] by = "read_uint8" -> read_uint8(data, offset)
      [] by = "read_uint32" -> read_uint32(data, offset)
      [] by = "read_uint64" -> read_uint64(data, offset)
      [] by = "read_int64" -> read_int64(data, offset)
      [] by = "read_uint192" -> read_uint192(data, offset)
      [] by = "read_int192" -> read_int192(data, offset)

\* one buffer.extend_from_slice(..?) of abi_encode
write_field(by, value) ==
    CASE by = "copy" -> Ok(value)
      [] by = "encode_uint8" -> encode_uint8(value)
      [] by = "encode_uint32" -> encode_uint32(value)
      [] by = "encode_uint64" -> encode_uint64(value)
      [] by = "encode_int64" -> encode_int64(value)
      [] by = "encode_uint192" -> encode_uint192(value)
      [] by = "encode_int192" -> encode_int192(value)

\* the operator `?` over a sequence of Results: the first error, if any
FirstError(results) ==
    LET failed == {i \in DOMAIN results : ~results[i].ok}
    IN IF failed = {} THEN {}
       ELSE {results[CHOOSE i \in failed : \A j \in failed : i <= j]}

\* ReportDataVn::decode: the length test, the reads in order, each returning
\* its error at once, then Ok(Self { .. }) of the fields the literal names
decode(schema, data) ==
    IF Len(data) < schema.min_words * WORD_SIZE THEN Err("DataTooShort")
    ELSE LET reads == schema.reads
             got == [i \in DOMAIN reads |->
                        read_field(reads[i].by, data, reads[i].word * WORD_SIZE)]
             named(n) == CHOOSE i \in DOMAIN reads : reads[i].name = n
             returned == {schema.returns[i] : i \in DOMAIN schema.returns}
         IN IF FirstError(got) # {} THEN CHOOSE e \in FirstError(got) : TRUE
            ELSE Ok([n \in returned |-> got[named(n)].val])

\* ReportDataVn::abi_encode: the words in the order they are appended
abi_encode(schema, report) ==
    LET writes == schema.writes
        put == [i \in DOMAIN writes |->
                   write_field(writes[i].by, report[writes[i].name])]
    IN IF FirstError(put) # {} THEN CHOOSE e \in FirstError(put) : TRUE
       ELSE Ok([k \in 1..(Len(writes) * WORD_SIZE) |->
                   put[((k - 1) \div WORD_SIZE) + 1].val[((k - 1) % WORD_SIZE) + 1]])

\* the byte strings handed to decode: every length of 0 to MaxWords words and
\* 0, 1 or 31 bytes more, no byte zero and no two words alike
Blob(len) == [k \in 1..len |-> Fill(k * 7)]

BlobLengths == {w * WORD_SIZE + d : w \in 0..MaxWords, d \in {0, 1, 31}}

DecodeInputs == [version : Versions, data : {Blob(len) : len \in BlobLengths}]

\* the i-th field of a sample report: a value of its type that uses the whole
\* width, differs from field to field and, for a BigInt, is positive and
\* fits 192 bits
SampleValue(type, i, seed) ==
    CASE type = "u8" -> <<Fill(i * 16 + seed)>>
      [] type = "u32" -> [k \in 1..4 |-> Fill(i * 16 + k + seed)]
      [] type \in {"u64", "i64"} -> [k \in 1..8 |-> Fill(i * 16 + k + seed)]
      [] type = "BigInt" ->
            [neg |-> FALSE, mag |-> <<seed>> \o [k \in 1..23 |-> Fill(i * 16 + k)]]
      [] type \in {"ID", "[u8;32]"} -> [k \in 1..32 |-> Fill(i * 16 + k + seed)]

SampleReport(v, seed) ==
    LET fields == Schema(v).fields
        at(n) == CHOOSE i \in DOMAIN fields : fields[i].name = n
    IN [n \in {fields[i].name : i \in DOMAIN fields} |->
            SampleValue(fields[at(n)].type, at(n), seed)]

EncodeInputs ==
    {[version |-> v, report |-> SampleReport(v, seed)] :
        v \in Versions, seed \in 1..MaxSeeds}

\* ReportDataVn::decode(&data)
Decode ==
    /\ op = "none"
    /\ "data" \in DOMAIN arg
    /\ op' = "decode"
    /\ ret' = decode(Schema(arg.version), arg.data)
    /\ UNCHANGED <<arg, notPureVars>>

\* report.abi_encode()
AbiEncode ==
    /\ op = "none"
    /\ "report" \in DOMAIN arg
    /\ op' = "abi_encode"
    /\ ret' = abi_encode(Schema(arg.version), arg.report)
    /\ UNCHANGED <<arg, notPureVars>>

\* ReportDataVn::decode(&encoded), as the tests of each version do
DecodeEncoded ==
    /\ op = "abi_encode"
    /\ ret.ok
    /\ op' = "decode_encoded"
    /\ ret' = decode(Schema(arg.version), ret.val)
    /\ UNCHANGED <<arg, notPureVars>>

(***************************************************************************)
(* Specifications                                                          *)
(***************************************************************************)
ReaderStep(r) ==
    \/ LockContains(r)
    \/ LockCompare(r)
    \/ SendReport(r)
    \/ InsertWaterMark(r)
    \/ CountAccepted(r)
    \/ HandleReconnection(r)
    \/ BackoffSleep(r)
    \/ ShutdownRecv(r)
    \/ \E ok \in BOOLEAN : ConnectAttempt(r, ok)
    \/ \E ok \in BOOLEAN : CloseSocket(r, ok)

ServerStep(r) ==
    \/ RecvIgnored(r)
    \/ RecvMalformed(r)
    \/ \E rep \in Reports : RecvBinary(r, rep)
    \/ \E ok \in BOOLEAN : RecvPing(r, ok)
    \/ RecvClose(r)
    \/ RecvErr(r)
    \/ RecvNone(r)

ConsumerCalls ==
    \/ ReadCall
    \/ ReadReturn
    \/ ReadCancel
    \/ CloseCall
    \/ CloseReturn

\* The whole system, from the Stream that Stream::new returned.
Next ==
    \/ Listen
    \/ ListenNoConnection
    \/ \E r \in Conns : StartTask(r)
    \/ \E r \in Conns : ReaderStep(r)
    \/ \E r \in Conns : ServerStep(r)
    \/ ConsumerCalls

Spec == Init /\ [][Next]_vars

\* The state after Stream::new and the first listen (the tests' prepare_scenario)
InitListening ==
    /\ pc = [r \in Conns |-> "select"]
    /\ cur = [r \in Conns |-> NoReport]
    /\ nrep = [r \in Conns |-> 0]
    /\ drops = [r \in Conns |-> 0]
    /\ sock = [r \in Conns |-> "open"]
    /\ reconnect_attempts = [r \in Conns |-> 0]
    /\ backoff = [r \in Conns |-> 0]
    /\ shutdown_flag = [r \in Conns |-> FALSE]
    /\ pending = [r \in Conns |-> FALSE]
    /\ water_mark = [f \in Feeds |-> NoKey]
    /\ sent = <<>>
    /\ nread = 0
    /\ accepted = 0
    /\ deduplicated = 0
    /\ partial_reconnects = 0
    /\ full_reconnects = 0
    /\ configured_connections = NumConns
    /\ active_connections = NumConns
    /\ cpc = "idle"
    /\ closeCalls = 0
    /\ conn = "none"
    /\ CallsDone
    /\ reader_origin = [r \in Conns |-> streams[r]]
    /\ logged = 0

NextListening ==
    \/ \E r \in Conns : ReaderStep(r)
    \/ \E r \in Conns : ServerStep(r)
    \/ ConsumerCalls

\* The tokio scheduler runs every task that is ready: a reader step that is
\* enabled is taken, a connection attempt ends (it is under a 5 s timeout),
\* close's sleep ends and a recv() that can complete does.  Nothing obliges
\* the servers to send or the consumer to call read or close.
Fairness ==
    /\ \A r \in Conns : WF_vars(ReaderStep(r))
    /\ WF_vars(CloseReturn)
    /\ WF_vars(ReadReturn)

\* A listening stream under fair scheduling.
InitListen == InitListening /\ ws_max_reconnect \in 1..MaxReconnectCfg

SpecListening == InitListen /\ [][NextListening]_vars /\ Fairness

\* A listening stream whose servers send no reports and whose consumer calls
\* nothing: connections are lost and re-established, for every configured
\* ws_max_reconnect.
NextReconnect ==
    \E r \in Conns :
        \/ RecvClose(r)
        \/ RecvErr(r)
        \/ RecvNone(r)
        \/ HandleReconnection(r)
        \/ BackoffSleep(r)
        \/ \E ok \in BOOLEAN : ConnectAttempt(r, ok)

InitReconnect == InitListening /\ ws_max_reconnect \in 0..MaxReconnectEpisodeCfg

SpecReconnect == InitReconnect /\ [][NextReconnect]_vars

\* A listening stream whose connections stay up and whose consumer keeps
\* reading: reports flow from the sockets through the deduplication check and
\* the consumer channel to read.
NextDelivery ==
    \/ \E r \in Conns :
        \/ \E rep \in Reports : RecvBinary(r, rep)
        \/ LockContains(r)
        \/ LockCompare(r)
        \/ SendReport(r)
        \/ InsertWaterMark(r)
        \/ CountAccepted(r)
    \/ ReadCall
    \/ ReadReturn
    \/ ReadCancel

\* the scheduler's fairness, and a consumer that calls read again whenever it
\* is between two calls
FairnessReading == Fairness /\ WF_vars(ReadCall)

SpecDelivery == InitListen /\ [][NextDelivery]_vars /\ FairnessReading

\* A listening stream whose connections stay up, whose servers send frames of
\* every kind but Close and whose consumer reads.
NextFrames ==
    \/ \E r \in Conns :
        \/ RecvIgnored(r)
        \/ RecvMalformed(r)
        \/ \E rep \in Reports : RecvBinary(r, rep)
        \/ \E ok \in BOOLEAN : RecvPing(r, ok)
        \/ LockContains(r)
        \/ LockCompare(r)
        \/ SendReport(r)
        \/ InsertWaterMark(r)
        \/ CountAccepted(r)
    \/ ReadCall
    \/ ReadReturn

SpecFrames == InitListen /\ [][NextFrames]_vars

\* Stream::new, for every HA setting, every number of origins and every
\* outcome of each connection attempt.
InitConnect ==
    /\ NewCalled
    /\ ws_max_reconnect \in 1..MaxReconnectCfg
    /\ ws_ha \in BOOLEAN
    /\ numOrigins \in 1..MaxOrigins
    /\ NoCall

NextConnect ==
    \/ \E ok \in BOOLEAN : ConnectToOrigin(ok)
    \/ ConnectMultipleReturn
    \/ \E ok \in BOOLEAN : ConnectSingle(ok)

SpecConnect == InitConnect /\ [][NextConnect]_vars

\* The word codec applied to every value of BigInts.
InitCodec ==
    /\ NoStream
    /\ arg \in BigInts
    /\ op = "none"
    /\ ret = <<>>

NextCodec ==
    \/ EncodeInt192
    \/ ReadInt192
    \/ EncodeUint192
    \/ ReadUint192

SpecCodec == InitCodec /\ [][NextCodec]_vars

\* decode_full_report applied to every payload of Payloads, in a build with
\* and in one without overflow checks.
InitEnvelope ==
    /\ NoStream
    /\ arg \in [payload : Payloads, overflow_checks : BOOLEAN]
    /\ op = "none"
    /\ ret = <<>>

NextEnvelope == DecodeFullReport

SpecEnvelope == InitEnvelope /\ [][NextEnvelope]_vars

\* The feed ID functions applied to every ID of IDs and every string of
\* HexStrings.
InitFeedId ==
    /\ NoStream
    /\ arg \in {[id |-> id, str |-> NoArg] : id \in IDs}
               \cup {[id |-> NoArg, str |-> str] : str \in HexStrings}
    /\ op = "none"
    /\ ret = <<>>

NextFeedId ==
    \/ ToHexString
    \/ FromHexStrOfToHexString
    \/ FromHexStr
    \/ ToHexStringOfFromHexStr

SpecFeedId == InitFeedId /\ [][NextFeedId]_vars

\* A configuration built from every combination of credentials and URLs, with
\* any setters called in any order before build.
InitConfig ==
    /\ NoStream
    /\ arg \in [api_key : Credentials, api_secret : Credentials,
                rest_url : Urls, ws_url : Urls]
    /\ op = "none"
    /\ ret = <<>>

NextConfig ==
    \/ ConfigNewCall
    \/ \E v \in {"Enabled", "Disabled"} : with_ws_ha(v)
    \/ \E v \in 0..MaxReconnectCfg : with_ws_max_reconnect(v)
    \/ \E v \in {"Enabled", "Disabled"} : with_insecure_skip_verify(v)
    \/ \E v \in {"Some(f)"} : with_inspect_http_response(v)
    \/ Build

SpecConfig == InitConfig /\ [][NextConfig]_vars

\* decode of every schema on byte strings of every length, and abi_encode of
\* sample reports of every schema followed by decode.
InitSchema ==
    /\ NoStream
    /\ arg \in DecodeInputs \cup EncodeInputs
    /\ op = "none"
    /\ ret = <<>>

NextSchema ==
    \/ Decode
    \/ AbiEncode
    \/ DecodeEncoded

SpecSchema == InitSchema /\ [][NextSchema]_vars

(***************************************************************************)
(* Stream::get_stats                                                       *)
(***************************************************************************)
get_stats ==
    [accepted |-> accepted,
     deduplicated |-> deduplicated,
     total_received |-> accepted + deduplicated,
     partial_reconnects |-> partial_reconnects,
     full_reconnects |-> full_reconnects,
     configured_connections |-> configured_connections,
     active_connections |-> active_connections]

(***************************************************************************)
(* Properties                                                              *)
(***************************************************************************)
\* the largest timestamp of feed f among the reports placed on the channel
\* (0 when there is none)
MaxSentTs(f) ==
    LET M[n \in 0..Len(sent)] ==
            IF n = 0 THEN 0
            ELSE IF sent[n].feed = f /\ sent[n].ts > M[n - 1] THEN sent[n].ts
                 ELSE M[n - 1]
    IN M[Len(sent)]

\* every reader is back at select! on an open socket
AllListening == \A r \in Conns : pc[r] = "select" /\ sock[r] = "open"

\* C1: for every feed, the observationsTimestamp values of the reports placed
\* on the consumer channel are strictly increasing, in the order they were
\* placed; no (feed, timestamp) is delivered twice.
C1_DeliveredStrictlyIncreasing ==
    \A i, j \in 1..Len(sent) :
        (i < j /\ sent[i].feed = sent[j].feed) => sent[i].ts < sent[j].ts

\* C2: when each of the N connections has emitted the same single report and
\* every reader has processed it, one report was delivered and the statistics
\* read accepted = 1, deduplicated = N - 1, total_received = N.
C2_HaDuplicatesFiltered ==
    (/\ \A r \in Conns : nrep[r] = 1 /\ pc[r] = "select"
     /\ \A r, q \in Conns : cur[r] = cur[q])
    => /\ Len(sent) = 1
       /\ get_stats.accepted = 1
       /\ get_stats.deduplicated = NumConns - 1
       /\ get_stats.total_received = NumConns

\* C3: the watermark of every feed in the map is the largest timestamp of that
\* feed already placed on the consumer channel.
C3_WatermarkIsLargestSurfaced ==
    \A f \in Feeds : water_mark[f] # NoKey => water_mark[f] = MaxSentTs(f)

\* C4: when the server has dropped every connection once and every reader has
\* reconnected, full_reconnects = 1 and partial_reconnects = N - 1.
C4_DropAllCountsOneFull ==
    (AllListening /\ \A r \in Conns : drops[r] = 1)
    => /\ get_stats.full_reconnects = 1
       /\ get_stats.partial_reconnects = NumConns - 1

\* C5: when k < N connections were disconnected once (by a socket error, an end
\* of stream, or a Close frame followed by the end of the stream) and have
\* reconnected while the others stayed connected, partial_reconnects = k and
\* full_reconnects = 0.
C5_DropSomeCountsPartial ==
    (/\ AllListening
     /\ \A r \in Conns : drops[r] <= 1
     /\ \E r \in Conns : drops[r] = 0)
    => /\ get_stats.partial_reconnects = Cardinality({r \in Conns : drops[r] = 1})
       /\ get_stats.full_reconnects = 0

\* C6: a reconnection episode never makes more than ws_max_reconnect
\* connection attempts, and the episode that ends in the terminal
\* ConnectionError has made exactly ws_max_reconnect, for every configured
\* value.
C6_AttemptsEqualMaxReconnect ==
    \A r \in Conns :
        /\ reconnect_attempts[r] <= ws_max_reconnect
        /\ pc[r] = "exit_reconnect_err" => reconnect_attempts[r] = ws_max_reconnect

\* C7: the delay a reader sleeps after the i-th consecutive failed attempt of
\* an episode is min(1000 * 2^(i-1), 10000) ms, in every episode.
C7_BackoffSequence ==
    \A r \in Conns :
        pc[r] = "sleep" =>
            backoff[r] = Min(1000 * 2 ^ (reconnect_attempts[r] - 1), 10000)

\* C7 witness: a reader in its second episode sleeps the capped 10000 ms for
\* the second time (after its sixth failed attempt), having slept 1000 ms
\* first.
C7_Witness ==
    \E r \in Conns :
        /\ pc[r] = "sleep"
        /\ drops[r] = 2
        /\ reconnect_attempts[r] = 6
        /\ backoff[r] = 10000

\* C8: once a close of a listening stream has returned (every call returns
\* Ok) and every reader has acted on the shutdown signal, active_connections
\* is 0, after the first call and after the second, and
\* configured_connections is what open left.
C8_CloseLeavesNoActive ==
    (closeCalls >= 1 /\ \A r \in Conns : pc[r] \in {"exit_shutdown", "exit_close_err"})
    => /\ get_stats.active_connections = 0
       /\ get_stats.configured_connections = NumConns

\* C9: a read that is pending on an empty channel can return (and what it
\* returns then is StreamClosed) once every reader task has exited after
\* exhausting its reconnection attempts, or close has been called and every
\* reader task has exited.
C9_ReadReturnsStreamClosed ==
    (/\ cpc = "reading"
     /\ ChanLen = 0
     /\ \/ \A r \in Conns : pc[r] = "exit_reconnect_err"
        \/ closeCalls >= 1 /\ \A r \in Conns : Exited(r))
    => ENABLED ReadReturn

\* C10: under fair scheduling, once close is called every reader task
\* eventually terminates.
C10_ReadersTerminateAfterClose ==
    (cpc = "close_sleep") ~> (\A r \in Conns : Exited(r))


\* the reports that passed the deduplication check so far: those placed on the
\* channel and those a reader holds at report_sender.send
PassedDedup == Len(sent) + Cardinality({r \in Conns : pc[r] = "send"})

\* C11: the consumer channel never holds more than its capacity of undelivered
\* reports, and while the consumer keeps reading, every report that passed the
\* deduplication check is eventually returned by read: none is discarded, a
\* reader that finds the channel full waits and then enqueues its report.
C11_NoReportDiscarded ==
    /\ [](ChanLen <= ChanCap)
    /\ \A n \in 1..MaxFrames : (PassedDedup >= n) ~> (nread >= n)

\* C11 witness: a reader holds a report that passed the check and waits on the
\* full channel
C11_Witness == \E r \in Conns : pc[r] = "send" /\ ChanFull /\ ChanLen = ChanCap


\* the origins whose connection attempt succeeded
Connected == {i \in 1..Len(tried) : tried[i].ok}

\* C12: in HA mode with at least 2 origins, connect tries the origins once
\* each in list order; when it has returned every origin was tried, it
\* succeeded iff some attempt succeeded, on success configured_connections =
\* active_connections = the number of origins that connected and the Stream
\* holds them, and on failure (ConnectionError) no Stream exists.
C12_HaConnectsEveryOrigin ==
    (ws_ha /\ numOrigins >= 2) =>
        /\ \A i \in 1..Len(tried) : tried[i].origin = i
        /\ Len(tried) <= numOrigins
        /\ newResult # "running" =>
            /\ Len(tried) = numOrigins
            /\ newResult = "Ok" <=> Connected # {}
            /\ newResult \in {"Ok", "ConnectionError"}
            /\ newResult = "Ok" =>
                /\ get_stats.configured_connections = Cardinality(Connected)
                /\ get_stats.active_connections = Cardinality(Connected)
                /\ Len(streams) = Cardinality(Connected)
                /\ conn = "some"
            /\ newResult = "ConnectionError" => conn = "none"

\* C12 witness: three origins, the first and the last fail, the second
\* connects: open succeeds with one connection
C12_Witness ==
    /\ ws_ha /\ numOrigins = 3
    /\ newResult = "Ok"
    /\ streams = <<2>>
    /\ active_connections = 1


\* the reports read has returned to the consumer
ReadSoFar == {sent[i] : i \in 1..nread}

\* C13: a reader whose connection was lost and re-established still finds the
\* watermark of what was delivered: when the replacement connection resends a
\* report the consumer has already read, the deduplication check it is about
\* to run drops it (the watermark of the feed has reached its timestamp).
C13_ResentReportDropped ==
    \A r \in Conns :
        (/\ drops[r] >= 1
         /\ sock[r] = "open"
         /\ pc[r] = "lock_contains"
         /\ cur[r] \in ReadSoFar)
        => /\ water_mark[cur[r].feed] # NoKey
           /\ IsDuplicate(water_mark[cur[r].feed], cur[r].ts)


\* -2^191 <= v < 2^191, read off the magnitude bytes
InInt192(v) ==
    \/ Len(v.mag) < 24
    \/ /\ Len(v.mag) = 24
       /\ \/ v.mag[1] < 128
          \/ v.neg /\ v.mag[1] = 128 /\ \A i \in 2..24 : v.mag[i] = 0

\* 0 <= v < 2^192
InUint192(v) == ~v.neg /\ Len(v.mag) <= 24

\* C14: the word codec round-trips: a signed value in -2^191 .. 2^191 - 1
\* that was encoded by encode_int192 is read back by read_int192 as itself,
\* negative values included, and an unsigned value below 2^192 encoded by
\* encode_uint192 is read back by read_uint192 as itself.
C14_WordCodecRoundTrips ==
    /\ (op = "read_int192" /\ InInt192(arg)) => ret = Ok(arg)
    /\ (op = "read_uint192" /\ InUint192(arg)) => ret = Ok(arg)


\* C17: encode_int192 fails, with InvalidLength, exactly for the values
\* outside -2^191 .. 2^191 - 1, and encode_uint192 fails, with InvalidLength,
\* exactly for the values whose magnitude needs more than 24 bytes; every
\* other value encodes to one word of 32 bytes.
C17_EncodeFailsExactlyOutOfRange ==
    /\ op = "encode_int192" =>
        /\ ret.ok <=> InInt192(arg)
        /\ ret.ok => Len(ret.val) = 32
        /\ ~ret.ok => ret = Err("InvalidLength")
    /\ op = "encode_uint192" =>
        /\ ret.ok <=> Len(arg.mag) <= 24
        /\ ret.ok => Len(ret.val) = 32
        /\ ~ret.ok => ret = Err("InvalidLength")

\* C17 witness: 2^191, whose magnitude fits 24 bytes but whose two's
\* complement needs 25, is refused by encode_int192
C17_Witness ==
    /\ op = "encode_int192"
    /\ ~arg.neg
    /\ Len(arg.mag) = 24
    /\ arg.mag[1] = 128
    /\ ret = Err("InvalidLength")


\* the offset field O and the length field L of a payload, as the envelope
\* layout defines them
OffsetField(payload) == SubSeq(payload, 121, 128)
LengthField(payload) ==
    SubSeq(payload, ValU64(OffsetField(payload)) + 25,
           ValU64(OffsetField(payload)) + 32)

\* len >= 128, 128 <= O and O + 32 + L <= len
EnvelopeInvariants(payload) ==
    /\ Len(payload) >= 128
    /\ GeU64(OffsetField(payload), 128)
    /\ IsSmallU64(OffsetField(payload))
    /\ ValU64(OffsetField(payload)) + 32 <= Len(payload)
    /\ IsSmallU64(LengthField(payload))
    /\ ValU64(OffsetField(payload)) + 32 + ValU64(LengthField(payload))
           <= Len(payload)

\* C15: decode_full_report returns an error value, and does not panic, for
\* every payload that breaks an envelope invariant: len < 128, O < 128,
\* O >= len, or O + 32 + L > len, the payloads with len - 32 < O < len and
\* those whose length field makes O + 32 + L overflow included.
C15_MalformedEnvelopeRejected ==
    (op = "decode_full_report" /\ ~EnvelopeInvariants(arg.payload))
    => ~ret.ok /\ ret # Panic

Lowercase(c) ==
    IF \E i \in 1..16 : UpperHexDigits[i] = c
    THEN HexDigits[CHOOSE i \in 1..16 : UpperHexDigits[i] = c]
    ELSE IF c = "X" THEN "x" ELSE c

\* C18: an ID printed by to_hex_string and parsed by from_hex_str is the same
\* ID; what to_hex_string prints is "0x" and 64 lowercase hexadecimal digits;
\* and an accepted string, parsed and printed again, is its trimmed,
\* lowercased form.
C18_FeedIdHexRoundTrips ==
    /\ op = "to_hex_string" =>
        /\ Len(ret) = 66
        /\ ret[1] = "0" /\ ret[2] = "x"
        /\ \A i \in 3..66 : \E d \in 1..16 : ret[i] = HexDigits[d]
    /\ op = "from_hex_str(to_hex_string)" => ret = Ok(arg.id)
    /\ op = "to_hex_string(from_hex_str)" =>
        ret = [i \in 1..Len(Trim(arg.str)) |-> Lowercase(Trim(arg.str)[i])]

\* C18 witness: a string with the prefix 0X, uppercase digits and whitespace
\* on both sides was parsed and printed
C18_Witness ==
    /\ op = "to_hex_string(from_hex_str)"
    /\ arg.str[1] = " "
    /\ arg.str[3] = "X"
    /\ arg.str[5] = "E"
    /\ arg.str[Len(arg.str)] = "\n"


\* the trimmed input without its first two characters, and the bytes a
\* remainder of 64 hexadecimal digits stands for
Remainder(str) == SubSeq(Trim(str), 3, Len(Trim(str)))
DecodedRemainder(str) ==
    [i \in 1..32 |-> 16 * HexVal(Remainder(str)[2 * i - 1])
                     + HexVal(Remainder(str)[2 * i])]

\* the checks of from_hex_str in their order, with the length of the
\* remainder measured by length_of
Classified(str, length_of(_)) ==
    IF ~(\/ starts_with(Trim(str), <<"0", "x">>)
         \/ starts_with(Trim(str), <<"0", "X">>))
    THEN Err("MissingPrefix")
    ELSE IF length_of(Remainder(str)) # 64 THEN Err("InvalidLength")
    ELSE IF \E i \in 1..Len(Remainder(str)) : ~IsHexDigit(Remainder(str)[i])
    THEN Err("DecodeError")
    ELSE Ok(DecodedRemainder(str))

ExpectedConfig ==
    LET given(called, default) ==
            IF called = {} THEN default ELSE CHOOSE v \in called : TRUE
    IN [api_key |-> arg.api_key,
        api_secret |-> arg.api_secret,
        rest_url |-> arg.rest_url,
        ws_url |-> arg.ws_url,
        ws_ha |-> given(ret.set.ws_ha, "Disabled"),
        ws_max_reconnect |-> given(ret.set.ws_max_reconnect, 5),
        insecure_skip_verify |-> given(ret.set.insecure_skip_verify, "Disabled"),
        inspect_http_response |-> given(ret.set.inspect_http_response, "None")]

OnlyWhitespace(str) == \A i \in 1..Len(str) : IsWhitespace(str[i])

\* C20 as stated: build fails with EmptyApiKey when the API key is empty, else
\* with EmptyApiSecret when the API secret is empty, and otherwise succeeds
\* with every field as given and ws_max_reconnect 5, HA Disabled and
\* insecure_skip_verify Disabled where they were not set.
C20_BuildRejectsEmpty ==
    op = "build" =>
        ret.result = IF arg.api_key = <<>> THEN Err("EmptyApiKey")
                     ELSE IF arg.api_secret = <<>> THEN Err("EmptyApiSecret")
                     ELSE Ok(ExpectedConfig)

\* C20, amended: the same with "empty" read as empty once trimmed: a key or a
\* secret of whitespace only is refused like an empty one.
C20_BuildRejectsBlank ==
    op = "build" =>
        ret.result = IF OnlyWhitespace(arg.api_key) THEN Err("EmptyApiKey")
                     ELSE IF OnlyWhitespace(arg.api_secret)
                     THEN Err("EmptyApiSecret")
                     ELSE Ok(ExpectedConfig)

\* C20 witness: a key of one blank with a usable secret and no setter called
\* was refused with EmptyApiKey
C20_Witness ==
    /\ op = "build"
    /\ arg.api_key = <<" ">>
    /\ arg.api_secret = <<"k">>
    /\ ret.set.ws_max_reconnect = {}
    /\ ret.result = Err("EmptyApiKey")

\* reader r reads the end of a stream whose Close frame it has read
EndAfterClose(r) == sock[r] = "peer_closed" /\ sock'[r] = "lost"

\* C21: a reader that has read a Close frame, shutdown not requested, has
\* decremented active_connections once for the disconnect: the end of the
\* stream that follows the frame leaves the counter as it is, and takes the
\* reader to the reconnection path.
C21_CloseFrameDecrementsOnce ==
    [][\A r \in Conns :
        (EndAfterClose(r) /\ ~shutdown_flag[r]) =>
            /\ active_connections' = active_connections
            /\ pc'[r] = "handle_reconnection"]_vars

\* close has been called: shutdown_sender.send(()) has broadcast the signal
ShutdownBroadcast == cpc = "close_sleep" \/ closeCalls >= 1

\* reader r ends a connect_to_origin call of try_to_reconnect
AttemptEnds(r) == pc[r] = "connect" /\ pc'[r] # "connect"

\* C22: once close has been called, no reader starts a reconnection: a reader
\* that reads the end of its stream exits, no connection attempt is made and
\* neither full_reconnects nor partial_reconnects is incremented.
C22_NoReconnectAfterShutdown ==
    [][ShutdownBroadcast =>
        /\ full_reconnects' = full_reconnects
        /\ partial_reconnects' = partial_reconnects
        /\ \A r \in Conns :
            /\ ~AttemptEnds(r)
            /\ RecvNone(r) => pc'[r] = "exit_shutdown"]_vars

\* the origins connect opened a socket to
ConnectedOrigins == {streams[i] : i \in 1..Len(streams)}

\* C23: a reader whose connection to origin i was lost makes its reconnection
\* attempts to origin i, so that once every reader has reconnected the stream
\* holds one connection to each origin it was connected to at first.
C23_ReconnectsToSameOrigin ==
    /\ \A r \in Conns : Spawned(r) => reader_origin[r] = streams[r]
    /\ AllListening => {reader_origin[r] : r \in Conns} = ConnectedOrigins

\* reader r processes a frame that is only logged: a Text frame, a Pong frame
\* (RecvIgnored) or a Binary frame that does not parse (RecvMalformed)
LogsFrame(r) == RecvIgnored(r) \/ RecvMalformed(r)

\* C24: processing a Text frame, a Pong frame or a Binary frame that does not
\* parse as a WebSocketReport places nothing on the consumer channel, leaves
\* the watermark map and the six statistics counters as they are, and leaves
\* the reader at select! on the same socket.
C24_LoggedFramesHaveNoEffect ==
    [][\A r \in Conns :
        LogsFrame(r) =>
            /\ UNCHANGED <<sent, nread, water_mark>>
            /\ UNCHANGED <<accepted, deduplicated, partial_reconnects,
                           full_reconnects, configured_connections,
                           active_connections>>
            /\ pc'[r] = "select" /\ sock'[r] = "open"
            /\ reader_origin'[r] = reader_origin[r]]_vars

\* C24 witness: a frame was only logged by a stream that had already accepted
\* a report and holds its watermark, every reader still at select! on its
\* open socket.
C24_Witness ==
    /\ logged >= 1
    /\ accepted = 1
    /\ \E f \in Feeds : water_mark[f] # NoKey
    /\ AllListening

\* reader r has looked its report's feed up in water_mark and has not yet
\* written the map or dropped the report
BetweenCheckAndUpdate(r) == pc[r] \in {"lock_compare", "send", "insert"}

\* C25: a report on the consumer channel has had its timestamp written to the
\* watermark of its feed and has been counted in accepted before it was
\* placed there; and the lookup and the write of a feed's watermark are one
\* atomic step: no two readers are between their check and their update of the
\* same feed.
C25_WatermarkCheckedAndSetAtomically ==
    /\ Len(sent) <= accepted
    /\ \A i \in 1..Len(sent) : water_mark[sent[i].feed] >= sent[i].ts
    /\ \A r, q \in Conns :
        (r # q /\ BetweenCheckAndUpdate(r) /\ BetweenCheckAndUpdate(q))
            => cur[r].feed # cur[q].feed

\* the widths of the fields "v2 common" of the schema table: feedId,
\* validFromTimestamp, observationsTimestamp, nativeFee, linkFee, expiresAt
TableV2Common == <<"bytes32", "u32", "u32", "u192", "u192", "u32">>

\* the schema table: the width of every field of every version, in order
TableFields(v) ==
    CASE v = 1 -> <<"bytes32", "u32", "i192", "i192", "i192", "u64", "bytes32",
                    "u64", "u64">>
      [] v = 2 -> TableV2Common \o <<"i192">>
      [] v = 3 -> TableV2Common \o <<"i192", "i192", "i192">>
      [] v = 4 -> TableV2Common \o <<"i192", "u32">>
      [] v = 5 -> TableV2Common \o <<"i192", "u32", "u32">>
      [] v = 7 -> TableV2Common \o <<"i192">>
      [] v = 8 -> TableV2Common \o <<"u64", "i192", "u8">>
      [] v = 9 -> TableV2Common \o <<"i192", "u64", "i192", "u32">>
      [] v = 10 -> TableV2Common \o <<"u64", "i192", "u8", "i192", "i192", "u32",
                                      "i192">>
      [] v = 11 -> TableV2Common \o <<"i192", "u64", "i192", "u64", "i192", "u64",
                                      "i192", "u32">>
      [] v = 12 -> TableV2Common \o <<"i192", "i192", "i64", "u32">>
      [] v = 13 -> TableV2Common \o <<"u64", "i192", "i192", "u64", "u64", "i192">>

\* wordCount of the schema table
wordCount(v) == Len(TableFields(v))

\* C26: for every schema version, decode fails with DataTooShort on every
\* input shorter than wordCount * 32 bytes and succeeds on every input of at
\* least wordCount * 32 bytes, whatever follows them; so for V11 and its 14
\* fields.
C26_DecodeChecksLength ==
    op = "decode" =>
        IF Len(arg.data) < wordCount(arg.version) * 32
        THEN ret = Err("DataTooShort")
        ELSE ret.ok

\* C26 witness: V11 is handed 13 words and one byte, which pass the length
\* test of decode, and fails with DataTooShort at its fourteenth field.
C26_Witness ==
    /\ op = "decode"
    /\ arg.version = 11
    /\ Len(arg.data) = 13 * 32 + 1
    /\ ret = Err("DataTooShort")

\* the value a field of the given table width has in a word: its rightmost
\* width / 8 bytes
TableRead(width, word) ==
    CASE width = "bytes32" -> word
      [] width = "u8" -> SubSeq(word, 32, 32)
      [] width = "u32" -> SubSeq(word, 29, 32)
      [] width \in {"u64", "i64"} -> SubSeq(word, 25, 32)
      [] width = "u192" -> from_bytes_be(SubSeq(word, 9, 32))
      [] width = "i192" -> from_signed_bytes_be(SubSeq(word, 9, 32))

\* word i of a byte string, from 1
Word(data, i) == SubSeq(data, (i - 1) * 32 + 1, i * 32)

\* the name of the i-th field a version's report declares
Declared(v, i) == Schema(v).fields[i].name

\* C27: for every schema version, abi_encode emits wordCount * 32 bytes with
\* the i-th declared field in word i, decode reads the i-th declared field
\* from word i with the width of the schema table, and decode returns the
\* report that abi_encode was given, every field of it.
C27_EncodeAndDecodeFollowTable ==
    LET v == arg.version IN
    /\ (op = "abi_encode" /\ ret.ok) =>
            /\ Len(ret.val) = wordCount(v) * 32
            /\ \A i \in 1..wordCount(v) :
                TableRead(TableFields(v)[i], Word(ret.val, i)) = arg.report[Declared(v, i)]
    /\ (op = "decode" /\ ret.ok) =>
            \A i \in 1..wordCount(v) :
                /\ Declared(v, i) \in DOMAIN ret.val
                /\ ret.val[Declared(v, i)] = TableRead(TableFields(v)[i], Word(arg.data, i))
    /\ op = "decode_encoded" => ret = Ok(arg.report)

HoldsOpenConnection(r) == Subscribed(r) /\ sock[r] = "open"

\* C29: active_connections is between 0 and configured_connections (the
\* unsigned counter has not wrapped) and equals the number of reader tasks
\* that hold an open connection; a reader that has returned, by any path, is
\* not counted.
C29_ActiveCountsOpenReaders ==
    /\ 0 <= active_connections
    /\ active_connections <= configured_connections
    /\ active_connections = Cardinality({r \in Conns : HoldsOpenConnection(r)})

\* C30: the first listen takes the connection set and spawns one reader task
\* per connection, as many as configured_connections; a listen called after
\* it spawns no reader, returns ConnectionError and leaves the readers, the
\* counters and the watermark as they were.
C30_ListenConsumesConnections ==
    [][/\ Listen =>
            /\ \A r \in Conns : pc[r] = "unspawned" /\ pc'[r] = "spawned"
            /\ Cardinality({r \in Conns : pc'[r] = "spawned"}) = configured_connections
            /\ conn' = "none"
       /\ ((Listen \/ ListenNoConnection) /\ \E r \in Conns : Spawned(r)) =>
            /\ cpc' = "listen_error"
            /\ UNCHANGED <<pc, sock, statsVars, water_mark>>]_vars

\* C30 witness: a listen called after a report was accepted and its watermark
\* set has returned ConnectionError.
C30_Witness ==
    /\ cpc = "listen_error"
    /\ accepted >= 1
    /\ \E f \in Feeds : water_mark[f] # NoKey
    /\ \A r \in Conns : Spawned(r)


=============================================================================
